---- MODULE Spec2Model ----
(***************************************************************************)
(* Model of the MCP integration layer of backend/agentpress/mcp:           *)
(*   - MCPClient (client.py): connection flag, subprocess transport,       *)
(*     request-id counter, pending-request map, background read loop;      *)
(*   - MCPToolGateway (tool_gateway.py): gating policy evaluation;         *)
(*   - MCPServerManager (server_manager.py): the clients it owns, the      *)
(*     connected subset, the tool routing table;                           *)
(*   - MCPToolWrapper (tool_wrapper.py): argument validation, defaults     *)
(*     and the outcome of one tool invocation.                             *)
(*                                                                         *)
(* The client is an asyncio program: a coroutine runs atomically between   *)
(* two awaits that really suspend.  Every action below is one such atomic  *)
(* stretch of a coroutine.  connect() and disconnect() of one client are   *)
(* issued by one owner, one after the other (MCPServerManager connects a   *)
(* client it created or found not connected, and disconnects the clients   *)
(* it holds as connected); request senders, the read loop, timeouts and    *)
(* the server process interleave freely with them.                         *)
(***************************************************************************)
EXTENDS Integers, FiniteSets, Sequences, TLC

(* ------------------------------ bounds -------------------------------- *)

\* number of request ids one client instance may allocate
MaxReq == 3
\* number of subprocesses one client instance may start
MaxProc == 2

Ids == 1..MaxReq
Procs == 1..MaxProc

\* self.process = None
NoProcess == 0
\* a JSON-RPC message without an "id" member, and a future holding no response
NoId == 0

VARIABLES
    connected,         \* MCPClient.connected
    process,           \* MCPClient.process: NoProcess or the current subprocess
    procState,         \* per subprocess: "unborn", "running", "exited", "terminated"
    request_id,        \* MCPClient._request_id
    pending_requests,  \* MCPClient._pending_requests: the ids that are keys of the map
    req,               \* per request id: the send_request call that allocated it and its future
    stdin,             \* per subprocess: the ids of the requests written to its stdin
    initialized,       \* subprocesses that were sent notifications/initialized
    response_task,     \* MCPClient._response_task: the read loop task
    lc,                \* where the owner's connect()/disconnect() call stands
    closed,            \* disconnect() has been called on this instance while connected
    event,             \* the last step taken and its outcome
    gwConfig,          \* MCPToolGateway.config
    gwQuery,           \* the last gating decision asked of the gateway
    gwEnabled,         \* MCPToolGateway.enabled
    registered_tools,  \* MCPToolGateway.registered_tools
    tool_cache,        \* MCPToolGateway._tool_cache, by project id
    gwEvent,           \* the last registration operation of the gateway and its outcome
    gwHistory,         \* what the gateway did since its cache was last emptied
    server_configs,    \* MCPServerManager.server_configs, by server name
    clients,           \* MCPServerManager.clients
    connected_clients, \* MCPServerManager.connected_clients: positions in clients
    tool_to_client_map,\* MCPServerManager._tool_to_client_map
    current_project_id,\* MCPServerManager._current_project_id
    getTools,          \* the get_available_tools call in progress
    mgrEvent,          \* the last manager operation and its outcome
    wrapSchema,        \* MCPToolWrapper.input_schema
    wrapConnected,     \* MCPToolWrapper.mcp_client.connected
    wrapCall           \* the last MCPToolWrapper.call_tool and its outcome

clientVars == <<connected, process, procState, request_id, pending_requests, req,
                stdin, initialized, response_task, lc, closed, event>>
gatewayVars == <<gwConfig, gwQuery, gwEnabled, registered_tools, tool_cache, gwEvent,
                 gwHistory>>
managerVars == <<server_configs, clients, connected_clients, tool_to_client_map,
                 current_project_id, getTools, mgrEvent>>
wrapperVars == <<wrapSchema, wrapConnected, wrapCall>>
vars == <<connected, process, procState, request_id, pending_requests, req,
          stdin, initialized, response_task, lc, closed, event, gwConfig, gwQuery,
          gwEnabled, registered_tools, tool_cache, gwEvent, gwHistory,
          server_configs, clients, connected_clients, tool_to_client_map,
          current_project_id, getTools, mgrEvent, wrapSchema, wrapConnected, wrapCall>>

(* ------------------------------ client -------------------------------- *)

\* a request id not yet allocated
FreeReq == [st |-> "free", owner |-> "-", fut |-> "-", got |-> NoId]

\* asyncio.Future() registered by send_request for its caller
NewReq(owner) == [st |-> "inflight", owner |-> owner, fut |-> "pending", got |-> NoId]

\* the send_request call has left through its finally clause
ReturnedReq == [st |-> "returned", owner |-> "-", fut |-> "-", got |-> NoId]

\* op: the step; out: how it ended; id: the request it concerns; got: the id
\* carried by the response handed to a returning caller
Ev(op, out, id) == [op |-> op, out |-> out, id |-> id, got |-> NoId]

\* lines a server process can put on its stdout
Messages ==
    [kind : {"result", "error"}, id : Ids]
        \cup {[kind |-> "notification", id |-> NoId], [kind |-> "malformed", id |-> NoId]}

\* mutant of HandleResponseTarget: the response is handed to the oldest
\* waiting request, whatever id it carries
HandleResponseTargetFifo(pend, r, response_id) ==
    LET waiting == {i \in pend : r[i].fut = "pending"}
    IN  IF waiting = {} THEN NoId
        ELSE CHOOSE i \in waiting : \A j \in waiting : i <= j

\* mutant of HandleResponseTarget: a response whose id has no entry is handed
\* to the request sent last that still waits
HandleResponseTargetStale(pend, r, response_id) ==
    LET waiting == {i \in pend : r[i].fut = "pending"}
    IN  IF response_id \in pend
        THEN IF r[response_id].fut = "pending" THEN response_id ELSE NoId
        ELSE IF waiting = {} THEN NoId
        ELSE CHOOSE i \in waiting : \A j \in waiting : j <= i

\* mutant of HandleResponseTarget: "if not future.done()" is missing, a
\* response resolves the future of its id again
HandleResponseTargetAgain(pend, r, response_id) ==
    IF response_id \in pend THEN response_id ELSE NoId

\* _handle_response: the request whose future receives a response carrying
\* response_id (NoId when the response is dropped)
HandleResponseTarget(pend, r, response_id) ==
    IF response_id \in pend /\ r[response_id].fut = "pending"
    THEN response_id
    ELSE NoId

\* mutant of HandleResponse: a notification resolves the oldest waiting
\* request
HandleResponseNotificationResolves(pend, r, m) ==
    LET t == IF m.kind = "notification" THEN HandleResponseTargetFifo(pend, r, m.id)
             ELSE IF m.kind = "malformed" THEN NoId
             ELSE HandleResponseTarget(pend, r, m.id)
    IN  IF t = NoId THEN r
        ELSE [r EXCEPT ![t].fut = IF m.kind = "error" THEN "error" ELSE "result",
                       ![t].got = t]

\* mutant of HandleResponse: an error response fails every waiting request
HandleResponseErrorFailsAll(pend, r, m) ==
    IF m.kind = "result"
    THEN LET t == HandleResponseTarget(pend, r, m.id)
         IN  IF t = NoId THEN r
             ELSE [r EXCEPT ![t].fut = m.kind, ![t].got = m.id]
    ELSE IF m.kind = "error"
    THEN [i \in Ids |-> IF i \in pend /\ r[i].fut = "pending"
                        THEN [r[i] EXCEPT !.fut = "error", !.got = i]
                        ELSE r[i]]
    ELSE r

\* _handle_response: the futures after a decoded message m
HandleResponse(pend, r, m) ==
    IF m.kind \in {"result", "error"}
    THEN LET t == HandleResponseTarget(pend, r, m.id)
         IN  IF t = NoId THEN r
             ELSE [r EXCEPT ![t].fut = m.kind, ![t].got = m.id]
    ELSE r

\* mutant of CancelPending: disconnect() cancels no future
CancelPendingNone(pend, r) == r

\* disconnect: "for request_id, future in self._pending_requests.items():
\*                  if not future.done(): future.cancel()"
CancelPending(pend, r) ==
    [i \in Ids |-> IF i \in pend /\ r[i].fut = "pending"
                   THEN [r[i] EXCEPT !.fut = "cancelled"]
                   ELSE r[i]]

\* _send_stdio_message: "if not hasattr(self, '_response_task') or
\*                          self._response_task.done(): create_task(...)"
EnsureResponseTask(task) ==
    IF task.st \in {"none", "done"} THEN [st |-> "created", proc |-> NoProcess] ELSE task

\* _handle_stdio_responses: the loop condition, then the next readline()
LoopHead(conn, proc) ==
    IF conn /\ proc # NoProcess
    THEN [st |-> "reading", proc |-> proc]
    ELSE [st |-> "done", proc |-> NoProcess]

\* mutant of PopRequest: the finally clause clears the whole map
PopRequestAll(pend, id) == {}

\* send_request: "finally: self._pending_requests.pop(request_id, None)"
PopRequest(pend, id) == pend \ {id}

\* mutant of TerminateProcess: the subprocess is left alone
TerminateProcessSkipped(ps, p) == ps

\* disconnect: "self.process.terminate()", then wait, then kill if still alive
TerminateProcess(ps, p) == [ps EXCEPT ![p] = "terminated"]

ClientInit ==
    /\ connected = FALSE
    /\ process = NoProcess
    /\ procState = [p \in Procs |-> "unborn"]
    /\ request_id = 0
    /\ pending_requests = {}
    /\ req = [i \in Ids |-> FreeReq]
    /\ stdin = [p \in Procs |-> {}]
    /\ initialized = {}
    /\ response_task = [st |-> "none", proc |-> NoProcess]
    /\ lc = "idle"
    /\ closed = FALSE
    /\ event = Ev("init", "-", NoId)

\* send_request up to its first suspension (the drain of the write, then the
\* wait on the future), entered with self.connected true
SendRequestBody(api, owner) ==
    LET id == request_id + 1 IN
    /\ request_id < MaxReq
    /\ request_id' = id
    /\ IF process = NoProcess
       THEN \* _send_stdio_message raises "STDIO transport not available";
            \* the finally clause pops the entry again
            /\ req' = [req EXCEPT ![id] = ReturnedReq]
            /\ event' = Ev(api, "transport_error", id)
            /\ UNCHANGED <<pending_requests, stdin, response_task>>
       ELSE /\ response_task' = EnsureResponseTask(response_task)
            /\ \/ \* the request line is written to the subprocess's stdin
                  /\ req' = [req EXCEPT ![id] = NewReq(owner)]
                  /\ pending_requests' = pending_requests \cup {id}
                  /\ stdin' = [stdin EXCEPT ![process] = @ \cup {id}]
                  /\ event' = Ev(api, "sent", id)
               \/ \* the pipe of an exited subprocess is broken: write/drain raises
                  /\ procState[process] = "exited"
                  /\ req' = [req EXCEPT ![id] = ReturnedReq]
                  /\ event' = Ev(api, "io_error", id)
                  /\ UNCHANGED <<pending_requests, stdin>>

\* mutant of Request: the "if not self.connected" guard is missing
RequestUnguarded(api) ==
    /\ SendRequestBody(api, "user")
    /\ UNCHANGED <<connected, process, procState, initialized, lc, closed>>
    /\ UNCHANGED <<gatewayVars, managerVars, wrapperVars>>

\* the three request entry points share the "Client not connected" guard
Request(api) ==
    /\ IF ~connected
       THEN /\ event' = Ev(api, "not_connected", NoId)
            /\ UNCHANGED <<request_id, pending_requests, req, stdin, response_task>>
       ELSE SendRequestBody(api, "user")
    /\ UNCHANGED <<connected, process, procState, initialized, lc, closed>>
    /\ UNCHANGED <<gatewayVars, managerVars, wrapperVars>>

ListTools == Request("list_tools")

CallTool == Request("call_tool")

SendRequest == Request("send_request")

\* what the caller of send_request(id) gets once its future is resolved
Outcome(r) ==
    CASE r.fut = "result" -> "result"
      [] r.fut = "error" -> "rpc_error"
      [] r.fut = "cancelled" -> "cancelled"

\* a user's send_request resumes from wait_for with a resolved future
Return(id) ==
    /\ req[id].st = "inflight"
    /\ req[id].owner = "user"
    /\ req[id].fut \in {"result", "error", "cancelled"}
    /\ event' = [op |-> "return", out |-> Outcome(req[id]), id |-> id, got |-> req[id].got]
    /\ req' = [req EXCEPT ![id] = ReturnedReq]
    /\ pending_requests' = PopRequest(pending_requests, id)
    /\ UNCHANGED <<connected, process, procState, request_id, stdin, initialized,
                   response_task, lc, closed>>
    /\ UNCHANGED <<gatewayVars, managerVars, wrapperVars>>

\* wait_for gives up on a user's request: the future is cancelled, the caller
\* gets "Request timeout", the finally clause pops the entry
Timeout(id) ==
    /\ req[id].st = "inflight"
    /\ req[id].owner = "user"
    /\ req[id].fut = "pending"
    /\ event' = [op |-> "return", out |-> "timeout", id |-> id, got |-> NoId]
    /\ req' = [req EXCEPT ![id] = ReturnedReq]
    /\ pending_requests' = PopRequest(pending_requests, id)
    /\ UNCHANGED <<connected, process, procState, request_id, stdin, initialized,
                   response_task, lc, closed>>
    /\ UNCHANGED <<gatewayVars, managerVars, wrapperVars>>

\* connect(): entered; awaits asyncio.create_subprocess_exec
ConnectStart ==
    /\ lc = "idle"
    /\ ~connected
    /\ lc' = "spawning"
    /\ event' = Ev("connect", "started", NoId)
    /\ UNCHANGED <<connected, process, procState, request_id, pending_requests, req,
                   stdin, initialized, response_task, closed>>
    /\ UNCHANGED <<gatewayVars, managerVars, wrapperVars>>

\* _connect_stdio raises: connect() raises MCPConnectionError
SpawnFail ==
    /\ lc = "spawning"
    /\ lc' = "idle"
    /\ event' = Ev("connect", "spawn_failed", NoId)
    /\ UNCHANGED <<connected, process, procState, request_id, pending_requests, req,
                   stdin, initialized, response_task, closed>>
    /\ UNCHANGED <<gatewayVars, managerVars, wrapperVars>>

\* the subprocess is up: self.process is set, self.connected = True, and
\* _initialize_connection sends the initialize request
SpawnDone ==
    /\ lc = "spawning"
    /\ \E p \in Procs :
        /\ procState[p] = "unborn"
        /\ \A q \in Procs : q < p => procState[q] # "unborn"
        /\ request_id < MaxReq
        /\ LET id == request_id + 1 IN
           /\ process' = p
           /\ procState' = [procState EXCEPT ![p] = "running"]
           /\ connected' = TRUE
           /\ request_id' = id
           /\ req' = [req EXCEPT ![id] = NewReq("connect")]
           /\ pending_requests' = pending_requests \cup {id}
           /\ stdin' = [stdin EXCEPT ![p] = @ \cup {id}]
           /\ response_task' = EnsureResponseTask(response_task)
           /\ lc' = "handshake"
           /\ event' = Ev("connect", "initialize_sent", id)
    /\ UNCHANGED <<initialized, closed>>
    /\ UNCHANGED <<gatewayVars, managerVars, wrapperVars>>

\* the initialize request came back with a result: store the capabilities,
\* send notifications/initialized, connect() returns
HandshakeOk(id) ==
    /\ lc = "handshake"
    /\ req[id].st = "inflight"
    /\ req[id].owner = "connect"
    /\ req[id].fut = "result"
    /\ req' = [req EXCEPT ![id] = ReturnedReq]
    /\ pending_requests' = PopRequest(pending_requests, id)
    /\ response_task' = EnsureResponseTask(response_task)
    /\ \/ /\ initialized' = initialized \cup {process}
          /\ lc' = "idle"
          /\ event' = Ev("connect", "ok", id)
          /\ UNCHANGED connected
       \/ \* the notification cannot be written to an exited subprocess
          /\ procState[process] = "exited"
          /\ connected' = FALSE
          /\ lc' = "idle"
          /\ event' = Ev("connect", "notify_failed", id)
          /\ UNCHANGED <<initialized, closed>>
    /\ UNCHANGED <<process, procState, request_id, stdin, closed>>
    /\ UNCHANGED <<gatewayVars, managerVars, wrapperVars>>

\* the initialize request failed with a JSON-RPC error or timed out:
\* _initialize_connection raises, connect() resets the flag and raises
\* MCPConnectionError
HandshakeError(id) ==
    /\ lc = "handshake"
    /\ req[id].st = "inflight"
    /\ req[id].owner = "connect"
    /\ req[id].fut \in {"error", "pending"}
    /\ req' = [req EXCEPT ![id] = ReturnedReq]
    /\ pending_requests' = PopRequest(pending_requests, id)
    /\ connected' = FALSE
    /\ lc' = "idle"
    /\ event' = Ev("connect", "handshake_failed", id)
    /\ UNCHANGED <<process, procState, request_id, stdin, initialized, response_task, closed>>
    /\ UNCHANGED <<gatewayVars, managerVars, wrapperVars>>

\* disconnect() up to its suspension in process.wait(): the flag is cleared,
\* the pending futures and the read loop are cancelled, the subprocess is
\* asked to terminate.  Process.terminate() raises ProcessLookupError once
\* asyncio has reaped an exited subprocess; then disconnect() raises and
\* neither resets self.process nor clears the map.
DisconnectStart ==
    /\ lc = "idle"
    /\ connected' = FALSE
    /\ req' = CancelPending(pending_requests, req)
    /\ response_task' = IF response_task.st = "none" THEN response_task
                        ELSE [st |-> "done", proc |-> NoProcess]
    /\ IF process = NoProcess
       THEN /\ pending_requests' = {}
            /\ event' = Ev("disconnect", "ok", NoId)
            /\ UNCHANGED <<procState, lc>>
       ELSE \/ /\ procState' = TerminateProcess(procState, process)
               /\ lc' = "terminating"
               /\ event' = Ev("disconnect", "terminate", NoId)
               /\ UNCHANGED pending_requests
            \/ /\ procState[process] = "exited"
               /\ event' = Ev("disconnect", "raised", NoId)
               /\ UNCHANGED <<pending_requests, procState, lc>>
    /\ closed' = (closed \/ connected)
    /\ UNCHANGED <<process, request_id, stdin, initialized>>
    /\ UNCHANGED <<gatewayVars, managerVars, wrapperVars>>

\* mutant of DisconnectFinish: self.process is not reset to None
DisconnectFinishKeepsProcess ==
    /\ lc = "terminating"
    /\ pending_requests' = {}
    /\ lc' = "idle"
    /\ event' = Ev("disconnect", "ok", NoId)
    /\ UNCHANGED <<connected, process, procState, request_id, req, stdin, initialized,
                   response_task, closed>>
    /\ UNCHANGED <<gatewayVars, managerVars, wrapperVars>>

\* disconnect() after process.wait(): "self.process = None;
\* self._pending_requests.clear()"
DisconnectFinish ==
    /\ lc = "terminating"
    /\ process' = NoProcess
    /\ pending_requests' = {}
    /\ lc' = "idle"
    /\ event' = Ev("disconnect", "ok", NoId)
    /\ UNCHANGED <<connected, procState, request_id, req, stdin, initialized,
                   response_task, closed>>
    /\ UNCHANGED <<gatewayVars, managerVars, wrapperVars>>

\* the read loop task takes its first step
LoopStart ==
    /\ response_task.st = "created"
    /\ response_task' = LoopHead(connected, process)
    /\ event' = Ev("loop", "started", NoId)
    /\ UNCHANGED <<connected, process, procState, request_id, pending_requests, req,
                   stdin, initialized, lc, closed>>
    /\ UNCHANGED <<gatewayVars, managerVars, wrapperVars>>

\* how the read loop disposes of a line
ReadOutcome(pend, r, m) ==
    CASE m.kind = "malformed" -> "malformed"
      [] m.kind = "notification" -> "notification"
      [] OTHER -> IF HandleResponseTarget(pend, r, m.id) = NoId
                  THEN "dropped" ELSE "completed"

\* mutant of ReadLine: a line that is not valid JSON ends the loop
ReadLineStopsOnMalformed(m) ==
    /\ response_task.st = "reading"
    /\ procState[response_task.proc] = "running"
    /\ req' = HandleResponse(pending_requests, req, m)
    /\ response_task' = IF m.kind = "malformed" THEN [st |-> "done", proc |-> NoProcess]
                        ELSE LoopHead(connected, process)
    /\ event' = Ev("read", ReadOutcome(pending_requests, req, m), m.id)
    /\ UNCHANGED <<connected, process, procState, request_id, pending_requests,
                   stdin, initialized, lc, closed>>
    /\ UNCHANGED <<gatewayVars, managerVars, wrapperVars>>

\* readline() returns a line written by the subprocess the loop is reading
\* from; the line is decoded and handled, then the loop condition is tested
ReadLine(m) ==
    /\ response_task.st = "reading"
    /\ procState[response_task.proc] = "running"
    /\ req' = HandleResponse(pending_requests, req, m)
    /\ response_task' = LoopHead(connected, process)
    /\ event' = Ev("read", ReadOutcome(pending_requests, req, m), m.id)
    /\ UNCHANGED <<connected, process, procState, request_id, pending_requests,
                   stdin, initialized, lc, closed>>
    /\ UNCHANGED <<gatewayVars, managerVars, wrapperVars>>

\* readline() returns b'' (end of file): "if not line: break"
ReadEOF ==
    /\ response_task.st = "reading"
    /\ procState[response_task.proc] \in {"exited", "terminated"}
    /\ response_task' = [st |-> "done", proc |-> NoProcess]
    /\ event' = Ev("read", "eof", NoId)
    /\ UNCHANGED <<connected, process, procState, request_id, pending_requests, req,
                   stdin, initialized, lc, closed>>
    /\ UNCHANGED <<gatewayVars, managerVars, wrapperVars>>

\* the server process exits on its own
ProcessExit(p) ==
    /\ procState[p] = "running"
    /\ procState' = [procState EXCEPT ![p] = "exited"]
    /\ event' = Ev("exit", "-", NoId)
    /\ UNCHANGED <<connected, process, request_id, pending_requests, req, stdin,
                   initialized, response_task, lc, closed>>
    /\ UNCHANGED <<gatewayVars, managerVars, wrapperVars>>

ClientNext ==
    \/ ListTools
    \/ CallTool
    \/ SendRequest
    \/ \E id \in Ids : Return(id)
    \/ \E id \in Ids : Timeout(id)
    \/ ConnectStart
    \/ SpawnFail
    \/ SpawnDone
    \/ \E id \in Ids : HandshakeOk(id)
    \/ \E id \in Ids : HandshakeError(id)
    \/ DisconnectStart
    \/ DisconnectFinish
    \/ LoopStart
    \/ \E m \in Messages : ReadLine(m)
    \/ ReadEOF
    \/ \E p \in Procs : ProcessExit(p)

(* ------------------------------ gateway ------------------------------- *)

\* A Python dict is a function whose domain is the set of keys present.  A
\* list-valued setting is [none |-> TRUE] for None and otherwise carries the
\* members of the list (the gating code only tests membership).
EmptyDict == [k \in {} |-> "-"]
NoneValue == [none |-> TRUE, items |-> {}]
ListValue(S) == [none |-> FALSE, items |-> S]

\* dict.get(key, default)
DictGet(d, key, default) == IF key \in DOMAIN d THEN d[key] ELSE default

\* dict.update(other) on a copy of d
DictUpdate(d, other) ==
    [k \in DOMAIN d \cup DOMAIN other |-> IF k \in DOMAIN other THEN other[k] ELSE d[k]]

ProjectIds == {"P", "Q"}
GatingKeys == {"mode", "allowed_servers", "allowed_tools", "blocked_tools"}

\* a descriptor as get_available_tools returns it
Descriptor(name, server) == [name |-> name, server_name |-> server]

\* the discovered tool lists the gateway is asked to filter
DiscoveredLists ==
    { <<Descriptor("x", "A"), Descriptor("y", "A"), Descriptor("y", "B"), Descriptor("x", "B")>>,
      <<Descriptor("y", "B"), Descriptor("x", "A")>> }

\* a key of a gating dict: absent, or present with a value
Absent(filler) == [present |-> FALSE, val |-> filler]
Present(v) == [present |-> TRUE, val |-> v]

GatingDict(m, srv, tl, blk) ==
    LET o == [mode |-> m, allowed_servers |-> srv, allowed_tools |-> tl, blocked_tools |-> blk]
    IN  [k \in {key \in GatingKeys : o[key].present} |-> o[k].val]

\* config["tool_gating"]
BaseGatingDicts ==
    { GatingDict(m, srv, tl, blk) :
        m \in {Absent("-"), Present("none"), Present("all"), Present("selective"), Present("custom")},
        srv \in {Absent(NoneValue), Present(NoneValue), Present(ListValue({"A"})), Present(ListValue({}))},
        tl \in {Absent(NoneValue), Present(ListValue({"x"})), Present(ListValue({"x", "y"}))},
        blk \in {Absent(NoneValue), Present(ListValue({})), Present(ListValue({"x"}))} }

\* config["project_overrides"]["P"]
OverrideDicts ==
    { GatingDict(m, srv, tl, blk) :
        m \in {Absent("-"), Present("none"), Present("all")},
        srv \in {Absent(NoneValue), Present(NoneValue), Present(ListValue({"B"}))},
        tl \in {Absent(NoneValue), Present(NoneValue), Present(ListValue({"y"}))},
        blk \in {Absent(NoneValue), Present(ListValue({})), Present(ListValue({"y"}))} }

\* the gateway configurations: a base policy, and either no override or an
\* override for project P
GatewayConfigs ==
    { [tool_gating |-> b, project_overrides |-> EmptyDict] : b \in BaseGatingDicts }
        \cup { [tool_gating |-> b, project_overrides |-> [p \in {"P"} |-> o]] :
                 b \in BaseGatingDicts, o \in OverrideDicts }

\* mutant of GetEffectiveConfig: an overridden list is merged with the base
\* list instead of replacing it
GetEffectiveConfigMerged(config, project_id) ==
    LET base_config == config.tool_gating
        project_overrides == config.project_overrides
    IN  IF project_id \in DOMAIN project_overrides
        THEN LET ov == project_overrides[project_id]
             IN  [k \in DOMAIN base_config \cup DOMAIN ov |->
                    IF k \notin DOMAIN ov THEN base_config[k]
                    ELSE IF k \notin DOMAIN base_config \/ k = "mode" THEN ov[k]
                    ELSE IF ov[k].none THEN base_config[k]
                    ELSE IF base_config[k].none THEN ov[k]
                    ELSE ListValue(base_config[k].items \cup ov[k].items)]
        ELSE base_config

\* _get_effective_config
GetEffectiveConfig(config, project_id) ==
    LET base_config == config.tool_gating
        project_overrides == config.project_overrides
    IN  IF project_id \in DOMAIN project_overrides
        THEN DictUpdate(base_config, project_overrides[project_id])
        ELSE base_config

\* mutant of IsToolAllowed: a name on the allowed-tools list is accepted
\* before the block list is looked at
IsToolAllowedAllowFirst(config, tool_info, project_id) ==
    LET effective_config == GetEffectiveConfig(config, project_id)
        blocked_tools == DictGet(effective_config, "blocked_tools", ListValue({}))
        allowed_servers == DictGet(effective_config, "allowed_servers", NoneValue)
        allowed_tools == DictGet(effective_config, "allowed_tools", NoneValue)
    IN  IF ~allowed_tools.none /\ tool_info.name \in allowed_tools.items
        THEN allowed_servers.none \/ tool_info.server_name \in allowed_servers.items
        ELSE IF tool_info.name \in blocked_tools.items THEN FALSE
        ELSE IF ~allowed_servers.none /\ tool_info.server_name \notin allowed_servers.items
             THEN FALSE
        ELSE allowed_tools.none

\* _is_tool_allowed
IsToolAllowed(config, tool_info, project_id) ==
    LET effective_config == GetEffectiveConfig(config, project_id)
        blocked_tools == DictGet(effective_config, "blocked_tools", ListValue({}))
        allowed_servers == DictGet(effective_config, "allowed_servers", NoneValue)
        allowed_tools == DictGet(effective_config, "allowed_tools", NoneValue)
    IN  IF tool_info.name \in blocked_tools.items THEN FALSE
        ELSE IF ~allowed_servers.none /\ tool_info.server_name \notin allowed_servers.items
             THEN FALSE
        ELSE IF ~allowed_tools.none /\ tool_info.name \notin allowed_tools.items THEN FALSE
        ELSE TRUE

\* mutant of FilterToolsByGating: selective denies a tool unless an
\* allowed-tools list names it
FilterToolsByGatingStrict(config, tools, project_id) ==
    LET mode == DictGet(config.tool_gating, "mode", "all")
        names == DictGet(GetEffectiveConfig(config, project_id), "allowed_tools", NoneValue)
    IN  CASE mode = "none" -> <<>>
          [] mode = "all" ->
                 SelectSeq(tools, LAMBDA tool : IsToolAllowed(config, tool, project_id))
          [] mode = "selective" ->
                 SelectSeq(tools, LAMBDA tool : /\ IsToolAllowed(config, tool, project_id)
                                                /\ ~names.none)
          [] OTHER -> tools

\* mutant of FilterToolsByGating: mode none is treated like an unknown mode
FilterToolsByGatingNoneOpen(config, tools, project_id) ==
    LET mode == DictGet(config.tool_gating, "mode", "all")
    IN  CASE mode \in {"all", "selective"} ->
                 SelectSeq(tools, LAMBDA tool : IsToolAllowed(config, tool, project_id))
          [] OTHER -> tools

\* _filter_tools_by_gating
FilterToolsByGating(config, tools, project_id) ==
    LET mode == DictGet(config.tool_gating, "mode", "all")
    IN  CASE mode = "none" -> <<>>
          [] mode \in {"all", "selective"} ->
                 SelectSeq(tools, LAMBDA tool : IsToolAllowed(config, tool, project_id))
          [] OTHER -> tools

NoQuery == [project |-> "-", tools |-> <<>>, allowed |-> <<>>]

\* no registration operation yet
NoGwEvent ==
    [op |-> "-", project |-> "-", raised |-> FALSE, queried |-> FALSE,
     discovered |-> <<>>, accepted |-> <<>>, attempted |-> <<>>, registered |-> <<>>,
     removed |-> <<>>, failing |-> {}]

\* nothing discovered, filtered or registered yet.  by: the project whose
\* register_mcp_tools appended each element of registered_tools; filtered: per
\* project, the last result of _filter_tools_by_gating; answered: per project,
\* the last answer of server_manager.get_available_tools; queries: per
\* project, how often get_available_tools was called
NoHistory ==
    [by |-> <<>>, filtered |-> EmptyDict, answered |-> EmptyDict,
     queries |-> [p \in ProjectIds |-> 0]]

\* MCPToolGateway.__init__: registered_tools = [], _tool_cache = {}
RegistrationFresh ==
    /\ registered_tools = <<>>
    /\ tool_cache = EmptyDict
    /\ gwEvent = NoGwEvent
    /\ gwHistory = NoHistory

\* the client specifications leave the gateway unconfigured
GatewayIdle ==
    /\ gwConfig = [tool_gating |-> EmptyDict, project_overrides |-> EmptyDict]
    /\ gwQuery = NoQuery
    /\ gwEnabled = TRUE
    /\ RegistrationFresh

\* a gateway is constructed with one of the configurations
GatewayInit ==
    /\ gwConfig \in GatewayConfigs
    /\ gwQuery = NoQuery
    /\ gwEnabled = TRUE
    /\ RegistrationFresh

\* the gateway filters a discovered tool list for a project
\* (register_mcp_tools and get_mcp_tool_info both call _filter_tools_by_gating)
FilterTools(project_id, tools) ==
    /\ gwQuery' = [project |-> project_id, tools |-> tools,
                   allowed |-> FilterToolsByGating(gwConfig, tools, project_id)]
    /\ UNCHANGED <<gwConfig, gwEnabled, registered_tools, tool_cache, gwEvent, gwHistory>>
    /\ UNCHANGED <<clientVars, managerVars, wrapperVars>>

GatewayNext == \E project_id \in ProjectIds, tools \in DiscoveredLists :
                   FilterTools(project_id, tools)

(* ------------------------------ manager ------------------------------- *)

\* The manager is used by one caller, one operation after the other.  An
\* operation is one action, with the outcomes of the client calls it awaits
\* (connect, list_tools, disconnect, call_tool) as its inputs; only
\* get_available_tools is split at its awaits, one step per request issued
\* and per request ended.  A client is identified by its position in
\* self.clients; server names identify the configurations.

\* limit on the length of self.clients
MaxClients == 3

ServerNames == {"A", "B", "C"}
ToolNames == {"x", "y"}

\* the order of the configurations in server_configs
ConfigOrder == <<"A", "B", "C">>

\* the tools each server answers to tools/list, when it answers
ServedTools == [n \in ServerNames |->
                  CASE n = "A" -> <<"x", "y">>
                    [] n = "B" -> <<"x">>
                    [] n = "C" -> <<"y">>]

\* one server configuration: config.get("enabled", True),
\* config.get("project_scope", "global"), config.get("allowed_tools")
ServerConfig(enabled, project_scope, allowed_tools) ==
    [enabled |-> enabled, project_scope |-> project_scope, allowed_tools |-> allowed_tools]

\* the configurations a server of the model may have
ConfigChoices ==
    [A |-> { ServerConfig(TRUE, "global", NoneValue),
             ServerConfig(FALSE, "global", NoneValue),
             ServerConfig(TRUE, "Q", ListValue({"y"})) },
     B |-> { ServerConfig(TRUE, "project", ListValue({"x"})),
             ServerConfig(TRUE, "global", NoneValue),
             ServerConfig(TRUE, "P", ListValue({"y"})) },
     C |-> { ServerConfig(TRUE, "P", NoneValue),
             ServerConfig(TRUE, "global", ListValue({})),
             ServerConfig(FALSE, "P", NoneValue) }]

\* the configuration lists a manager of the model is constructed with
ConfigLists == {f \in [ServerNames -> UNION {ConfigChoices[n] : n \in ServerNames}] :
                   \A n \in ServerNames : f[n] \in ConfigChoices[n]}

\* self._current_project_id = None
NoProject == "-"
\* no client: _find_client_for_tool returned None, no request awaited
NoClient == 0

\* MCPClient(config) as the manager sees it: client.name, client.connected
Client(name, conn) == [name |-> name, connected |-> conn]

ClientIds(cs) == 1..Len(cs)

\* set of the elements of a sequence
Range(sq) == {sq[i] : i \in DOMAIN sq}

\* get_enabled_servers
GetEnabledServers(configs) ==
    SelectSeq(ConfigOrder, LAMBDA n : configs[n].enabled)

\* mutant of GetServersForProject: the scope is not looked at
GetServersForProjectAnyScope(configs, project_id) ==
    GetEnabledServers(configs)

\* get_servers_for_project
GetServersForProject(configs, project_id) ==
    SelectSeq(GetEnabledServers(configs),
              LAMBDA n : \/ configs[n].project_scope = "global"
                         \/ configs[n].project_scope = "project"
                         \/ configs[n].project_scope = project_id)

\* [client for client in self.clients if client.connected]
ConnectedOf(cs) ==
    LET idx == [i \in 1..Len(cs) |-> i]
    IN  SelectSeq(idx, LAMBDA i : cs[i].connected)

\* mutant of ServerIsToolAllowed: an empty allow-list allows everything
ServerIsToolAllowedEmptyOpen(tool_name, server_config) ==
    \/ server_config.allowed_tools.none
    \/ server_config.allowed_tools.items = {}
    \/ tool_name \in server_config.allowed_tools.items

\* MCPServerManager._is_tool_allowed
ServerIsToolAllowed(tool_name, server_config) ==
    IF server_config.allowed_tools.none THEN TRUE
    ELSE tool_name \in server_config.allowed_tools.items

\* the descriptor get_available_tools returns: the tool with _server_name
\* and _client set
TaggedTool(name, server_name, client) ==
    [name |-> name, server_name |-> server_name, client |-> client]

\* the loop body of get_available_tools for one client whose list_tools
\* returned: the allowed tools, tagged, in the order listed
TaggedToolsOf(configs, cs, c) ==
    LET n == cs[c].name
        allowed == SelectSeq(ServedTools[n],
                             LAMBDA t : ServerIsToolAllowed(t, configs[n]))
    IN  [i \in 1..Len(allowed) |-> TaggedTool(allowed[i], n, c)]

\* mutant of MapToolsOf: a name that is already bound keeps its client
MapToolsOfFirstWins(configs, cs, map, c) ==
    LET n == cs[c].name
        names == {t \in Range(ServedTools[n]) : ServerIsToolAllowed(t, configs[n])}
    IN  [t \in DOMAIN map \cup names |-> IF t \in DOMAIN map THEN map[t] ELSE c]

\* the loop body of _refresh_tool_mappings for one client whose list_tools
\* returned: every allowed tool name is (re)bound to this client
MapToolsOf(configs, cs, map, c) ==
    LET n == cs[c].name
        names == {t \in Range(ServedTools[n]) : ServerIsToolAllowed(t, configs[n])}
    IN  [t \in DOMAIN map \cup names |-> IF t \in names THEN c ELSE map[t]]

\* the loop of _refresh_tool_mappings from position i of connected_clients;
\* list_tools raises for the clients in fail
RECURSIVE RefreshLoop(_, _, _, _, _, _)
RefreshLoop(configs, cs, cc, map, i, fail) ==
    IF i > Len(cc) THEN map
    ELSE IF cc[i] \in fail THEN RefreshLoop(configs, cs, cc, map, i + 1, fail)
    ELSE RefreshLoop(configs, cs, cc, MapToolsOf(configs, cs, map, cc[i]), i + 1, fail)

\* mutant of RefreshToolMappings: the table is not cleared first and keeps
\* the entries of before
RefreshToolMappingsKeep(configs, cs, cc, old, fail) ==
    RefreshLoop(configs, cs, cc, old, 1, fail)

\* _refresh_tool_mappings
RefreshToolMappings(configs, cs, cc, old, fail) ==
    RefreshLoop(configs, cs, cc, EmptyDict, 1, fail)

\* no manager operation yet
NoMgrEvent ==
    [op |-> "-", project |-> NoProject, raised |-> "-", attempted |-> {}, succeeded |-> {},
     invoked |-> {}, owned |-> {}, before |-> {}, failed |-> {}, called |-> {},
     tool |-> "-", outcome |-> "-", result |-> <<>>]

\* no get_available_tools call in progress
NoGetTools ==
    [active |-> FALSE, pos |-> 0, awaiting |-> NoClient,
     issued |-> {}, failed |-> {}, all_tools |-> <<>>]

\* MCPServerManager.__init__, all fields but server_configs
ManagerFresh ==
    /\ clients = <<>>
    /\ connected_clients = <<>>
    /\ tool_to_client_map = EmptyDict
    /\ current_project_id = NoProject
    /\ getTools = NoGetTools
    /\ mgrEvent = NoMgrEvent

\* a manager that is constructed and not used
ManagerIdle ==
    /\ server_configs = [n \in ServerNames |-> ServerConfig(TRUE, "global", NoneValue)]
    /\ ManagerFresh

\* a manager constructed with any configuration list of the model
ManagerInit ==
    /\ server_configs \in ConfigLists
    /\ ManagerFresh

\* connect_to_servers(project_id): connect() succeeds for the new clients of
\* the servers in ok and raises for the others; list_tools raises for the
\* clients in fail during the table rebuild
ConnectToServers(project_id, ok, fail) ==
    LET applicable == GetServersForProject(server_configs, project_id)
        created == [i \in 1..Len(applicable) |-> Client(applicable[i], applicable[i] \in ok)]
        cs == clients \o created
        cc == ConnectedOf(cs)
    IN  /\ ~getTools.active
        /\ Len(cs) <= MaxClients
        /\ ok \subseteq Range(applicable)
        /\ fail \subseteq Range(cc)
        /\ current_project_id' = project_id
        /\ clients' = cs
        /\ connected_clients' = cc
        /\ tool_to_client_map' =
              IF cc # <<>>
              THEN RefreshToolMappings(server_configs, cs, cc, tool_to_client_map, fail)
              ELSE tool_to_client_map
        /\ mgrEvent' = [NoMgrEvent EXCEPT !.op = "connect_to_servers",
                                          !.project = project_id,
                                          !.attempted = (Len(clients) + 1)..Len(cs),
                                          !.succeeded = {i \in (Len(clients) + 1)..Len(cs) :
                                                            cs[i].name \in ok},
                                          !.before = Range(connected_clients),
                                          !.failed = fail]
        /\ UNCHANGED <<server_configs, getTools>>
        /\ UNCHANGED <<clientVars, gatewayVars, wrapperVars>>

\* mutant of RetryFailedConnections: connect() is called on every owned
\* client and its outcome decides the connected flag
RetryFailedConnectionsAll(ok, fail) ==
    LET cs == [i \in 1..Len(clients) |-> Client(clients[i].name, i \in ok)]
        cc == ConnectedOf(cs)
    IN  /\ ~getTools.active
        /\ current_project_id # NoProject
        /\ ok \subseteq ClientIds(clients)
        /\ fail \subseteq Range(cc)
        /\ clients' = cs
        /\ connected_clients' = cc
        /\ tool_to_client_map' =
              IF cc # <<>>
              THEN RefreshToolMappings(server_configs, cs, cc, tool_to_client_map, fail)
              ELSE tool_to_client_map
        /\ mgrEvent' = [NoMgrEvent EXCEPT !.op = "retry_failed_connections",
                                          !.project = current_project_id,
                                          !.attempted = ClientIds(clients),
                                          !.succeeded = ok,
                                          !.before = Range(connected_clients),
                                          !.failed = fail]
        /\ UNCHANGED <<server_configs, current_project_id, getTools>>
        /\ UNCHANGED <<clientVars, gatewayVars, wrapperVars>>

\* retry_failed_connections(): connect() succeeds for the failed clients in
\* ok; list_tools raises for the clients in fail during the table rebuild
RetryFailedConnections(ok, fail) ==
    LET failed_clients == {i \in ClientIds(clients) : ~clients[i].connected}
        cs == [i \in 1..Len(clients) |->
                 IF i \in ok THEN Client(clients[i].name, TRUE) ELSE clients[i]]
        cc == ConnectedOf(cs)
    IN  /\ ~getTools.active
        /\ IF current_project_id = NoProject \/ failed_clients = {}
           THEN /\ ok = {} /\ fail = {}
                /\ mgrEvent' = [NoMgrEvent EXCEPT !.op = "retry_failed_connections",
                                                  !.project = current_project_id,
                                                  !.before = Range(connected_clients)]
                /\ UNCHANGED <<clients, connected_clients, tool_to_client_map>>
           ELSE /\ ok \subseteq failed_clients
                /\ fail \subseteq Range(cc)
                /\ clients' = cs
                /\ connected_clients' = cc
                /\ tool_to_client_map' =
                      IF cc # <<>>
                      THEN RefreshToolMappings(server_configs, cs, cc, tool_to_client_map, fail)
                      ELSE tool_to_client_map
                /\ mgrEvent' = [NoMgrEvent EXCEPT !.op = "retry_failed_connections",
                                                  !.project = current_project_id,
                                                  !.attempted = failed_clients,
                                                  !.owned = ClientIds(clients),
                                                  !.succeeded = ok,
                                                  !.before = Range(connected_clients),
                                                  !.failed = fail]
        /\ UNCHANGED <<server_configs, current_project_id, getTools>>
        /\ UNCHANGED <<clientVars, gatewayVars, wrapperVars>>

\* disconnect_from_servers(), also the body of shutdown(): disconnect() is
\* awaited on the clients of connected_clients and raises for those in raising
DisconnectBody(op, raising) ==
    /\ ~getTools.active
    /\ raising \subseteq Range(connected_clients)
    /\ connected_clients' = <<>>
    /\ clients' = <<>>
    /\ tool_to_client_map' = EmptyDict
    /\ mgrEvent' = [NoMgrEvent EXCEPT !.op = op,
                                      !.project = current_project_id,
                                      !.owned = ClientIds(clients),
                                      !.before = Range(connected_clients),
                                      !.invoked = Range(connected_clients),
                                      !.failed = raising]
    /\ UNCHANGED <<server_configs, current_project_id, getTools>>
    /\ UNCHANGED <<clientVars, gatewayVars, wrapperVars>>

DisconnectFromServers(raising) == DisconnectBody("disconnect_from_servers", raising)

Shutdown(raising) == DisconnectBody("shutdown", raising)

\* _find_client_for_tool
FindClientForTool(map, tool_name) ==
    IF tool_name \in DOMAIN map THEN map[tool_name] ELSE NoClient

\* mutant of ManagerCallTool: an exception of the client is swallowed
ManagerCallToolSwallows(tool_name, outcome) ==
    LET client == FindClientForTool(tool_to_client_map, tool_name)
    IN  /\ ~getTools.active
        /\ client = NoClient => outcome = "returns"
        /\ mgrEvent' = [NoMgrEvent EXCEPT
                           !.op = "call_tool",
                           !.project = current_project_id,
                           !.called = IF client = NoClient THEN {} ELSE {client},
                           !.tool = tool_name,
                           !.outcome = outcome]
        /\ UNCHANGED <<server_configs, clients, connected_clients, tool_to_client_map,
                       current_project_id, getTools>>
        /\ UNCHANGED <<clientVars, gatewayVars, wrapperVars>>

\* call_tool(tool_name, arguments): the client's call_tool returns or raises
ManagerCallTool(tool_name, outcome) ==
    LET client == FindClientForTool(tool_to_client_map, tool_name)
    IN  /\ ~getTools.active
        /\ client = NoClient => outcome = "returns"
        /\ mgrEvent' = [NoMgrEvent EXCEPT
                           !.op = "call_tool",
                           !.project = current_project_id,
                           !.called = IF client = NoClient THEN {} ELSE {client},
                           !.raised = IF client = NoClient THEN "not_found"
                                      ELSE IF outcome = "raises" THEN "wrapped" ELSE "-",
                           !.tool = tool_name,
                           !.outcome = outcome]
        /\ UNCHANGED <<server_configs, clients, connected_clients, tool_to_client_map,
                       current_project_id, getTools>>
        /\ UNCHANGED <<clientVars, gatewayVars, wrapperVars>>

\* get_available_tools(project_id) is called: all_tools = []; the body never
\* reads project_id
GetToolsStart(project_id) ==
    /\ ~getTools.active
    /\ getTools' = [NoGetTools EXCEPT !.active = TRUE]
    /\ mgrEvent' = [NoMgrEvent EXCEPT !.op = "get_available_tools called"]
    /\ UNCHANGED <<server_configs, clients, connected_clients, tool_to_client_map,
                   current_project_id>>
    /\ UNCHANGED <<clientVars, gatewayVars, wrapperVars>>

\* the for loop reaches its next client and awaits client.list_tools(): the
\* tools/list request goes out to that client
GetToolsIssue ==
    /\ getTools.active
    /\ getTools.awaiting = NoClient
    /\ getTools.pos < Len(connected_clients)
    /\ getTools' = [getTools EXCEPT !.awaiting = connected_clients[getTools.pos + 1],
                                    !.issued = @ \cup {connected_clients[getTools.pos + 1]}]
    /\ UNCHANGED <<server_configs, clients, connected_clients, tool_to_client_map,
                   current_project_id, mgrEvent>>
    /\ UNCHANGED <<clientVars, gatewayVars, wrapperVars>>

\* mutant of GetToolsEnd: the exception of a client ends the whole loop
GetToolsEndAborts(returned) ==
    LET c == getTools.awaiting
    IN  /\ getTools.active
        /\ c # NoClient
        /\ getTools' =
             IF returned
             THEN [getTools EXCEPT !.awaiting = NoClient, !.pos = @ + 1,
                      !.all_tools = @ \o TaggedToolsOf(server_configs, clients, c)]
             ELSE [getTools EXCEPT !.awaiting = NoClient, !.pos = Len(connected_clients),
                      !.failed = @ \cup {c}]
        /\ UNCHANGED <<server_configs, clients, connected_clients, tool_to_client_map,
                       current_project_id, mgrEvent>>
        /\ UNCHANGED <<clientVars, gatewayVars, wrapperVars>>

\* the awaited client.list_tools() ends: it returns the server's tools, which
\* are filtered, tagged and appended, or it raises (error response, timeout,
\* client not connected), which is logged
GetToolsEnd(returned) ==
    LET c == getTools.awaiting
    IN  /\ getTools.active
        /\ c # NoClient
        /\ getTools' =
             IF returned
             THEN [getTools EXCEPT !.awaiting = NoClient, !.pos = @ + 1,
                      !.all_tools = @ \o TaggedToolsOf(server_configs, clients, c)]
             ELSE [getTools EXCEPT !.awaiting = NoClient, !.pos = @ + 1,
                      !.failed = @ \cup {c}]
        /\ UNCHANGED <<server_configs, clients, connected_clients, tool_to_client_map,
                       current_project_id, mgrEvent>>
        /\ UNCHANGED <<clientVars, gatewayVars, wrapperVars>>

\* the loop is over: return all_tools
GetToolsReturn ==
    /\ getTools.active
    /\ getTools.awaiting = NoClient
    /\ getTools.pos >= Len(connected_clients)
    /\ mgrEvent' = [NoMgrEvent EXCEPT !.op = "get_available_tools",
                                      !.before = Range(connected_clients),
                                      !.invoked = getTools.issued,
                                      !.failed = getTools.failed,
                                      !.result = getTools.all_tools]
    /\ getTools' = NoGetTools
    /\ UNCHANGED <<server_configs, clients, connected_clients, tool_to_client_map,
                   current_project_id>>
    /\ UNCHANGED <<clientVars, gatewayVars, wrapperVars>>

\* the clients whose list_tools raises during one table rebuild, or whose
\* disconnect raises during one disconnect_from_servers: none, or one of cs
ListFailures(cs) == {{}} \cup {{c} : c \in cs}

\* a call of connect_to_servers with its inputs
ConnectToServersCall ==
    \E project_id \in ProjectIds :
       \E ok \in SUBSET Range(GetServersForProject(server_configs, project_id)) :
          \E fail \in ListFailures(1..MaxClients) :
             ConnectToServers(project_id, ok, fail)

\* a call of retry_failed_connections with its inputs
RetryFailedConnectionsCall ==
    \E ok \in SUBSET {i \in ClientIds(clients) : ~clients[i].connected} :
       \E fail \in ListFailures(ClientIds(clients)) :
          RetryFailedConnections(ok, fail)

\* a call of disconnect_from_servers with its inputs
DisconnectFromServersCall ==
    \E raising \in ListFailures(Range(connected_clients)) : DisconnectFromServers(raising)

\* a call of shutdown with its inputs
ShutdownCall ==
    \E raising \in ListFailures(Range(connected_clients)) : Shutdown(raising)

ManagerNext ==
    \/ ConnectToServersCall
    \/ RetryFailedConnectionsCall
    \/ DisconnectFromServersCall
    \/ ShutdownCall
    \/ \E tool_name \in ToolNames \cup {"z"}, outcome \in {"returns", "raises"} :
          ManagerCallTool(tool_name, outcome)
    \/ \E project_id \in ProjectIds : GetToolsStart(project_id)
    \/ GetToolsIssue
    \/ \E returned \in BOOLEAN : GetToolsEnd(returned)
    \/ GetToolsReturn

(* ----------------------- gateway: registration ------------------------ *)

\* The gateway is used by one caller, one operation after the other.  An
\* operation is one action; its inputs are what the server manager answers
\* when it is asked for the available tools, and the tool names for which
\* the host registry raises.

\* limit on the length of registered_tools
MaxRegistered == 3

\* a descriptor dict as the cache holds it: has_client tells whether the
\* dict still has its "_client" key
CachedDescriptor(name, server, has_client) ==
    [name |-> name, server_name |-> server, has_client |-> has_client]

\* what server_manager.get_available_tools may answer: every descriptor
\* carries its "_client"
ManagerAnswers ==
    { <<>>,
      <<CachedDescriptor("y", "B", TRUE)>>,
      <<CachedDescriptor("x", "A", TRUE), CachedDescriptor("y", "B", TRUE)>> }

\* the configurations of the gateways whose registration is explored
RegistrationConfigs ==
    { [tool_gating |-> EmptyDict, project_overrides |-> EmptyDict],
      [tool_gating |-> GatingDict(Present("none"), Absent(NoneValue), Absent(NoneValue),
                                  Absent(NoneValue)),
       project_overrides |-> EmptyDict],
      [tool_gating |-> GatingDict(Present("selective"), Present(ListValue({"A", "B"})),
                                  Absent(NoneValue), Present(ListValue({"x"}))),
       project_overrides |->
          [p \in {"P"} |-> GatingDict(Absent("-"), Absent(NoneValue), Absent(NoneValue),
                                      Present(ListValue({})))]],
      [tool_gating |-> GatingDict(Present("custom"), Absent(NoneValue), Absent(NoneValue),
                                  Present(ListValue({"x"}))),
       project_overrides |-> EmptyDict] }

\* the tool class _register_single_tool builds from a descriptor
ToolClass(tool_info) == [name |-> tool_info.name, server_name |-> tool_info.server_name]

\* mutant of DiscoverAvailableTools: the cache is never consulted
DiscoverAvailableToolsNoCache(cache, project_id, fresh) ==
    [tools |-> fresh, queried |-> TRUE,
     cache |-> [p \in DOMAIN cache \cup {project_id} |->
                  IF p = project_id THEN fresh ELSE cache[p]]]

\* _discover_available_tools(project_id): the cached list, or the answer of
\* the server manager, which is then cached
DiscoverAvailableTools(cache, project_id, fresh) ==
    IF project_id \in DOMAIN cache
    THEN [tools |-> cache[project_id], queried |-> FALSE, cache |-> cache]
    ELSE [tools |-> fresh, queried |-> TRUE,
          cache |-> [p \in DOMAIN cache \cup {project_id} |->
                       IF p = project_id THEN fresh ELSE cache[p]]]

\* _register_single_tool on every accepted descriptor: tool_info.pop("_client")
\* takes the key out of the dict, which is the dict the cache holds
PopClients(tools, allowed) ==
    [i \in DOMAIN tools |->
        IF tools[i] \in Range(allowed) THEN [tools[i] EXCEPT !.has_client = FALSE]
        ELSE tools[i]]

\* the accepted descriptors that reach tool_registry.register_tool: those
\* that still had their "_client"
RegistryCalls(allowed) == SelectSeq(allowed, LAMBDA t : t.has_client)

\* mutant of RegisterLoop: the first failure ends the loop
RegisterLoopStops(allowed, failing) ==
    LET calls == RegistryCalls(allowed)
        bad == {i \in DOMAIN allowed : ~allowed[i].has_client \/ allowed[i].name \in failing}
        ok == SelectSeq([i \in DOMAIN allowed |-> i], LAMBDA i : \A j \in bad : i < j)
    IN  [i \in DOMAIN ok |-> ToolClass(allowed[ok[i]])]

\* the loop of register_mcp_tools over the accepted descriptors: the tool
\* classes appended to registered_tools; a descriptor without "_client" and
\* a descriptor for which register_tool raises are logged and skipped
RegisterLoop(allowed, failing) ==
    LET ok == SelectSeq(allowed, LAMBDA t : t.has_client /\ t.name \notin failing)
    IN  [i \in DOMAIN ok |-> ToolClass(ok[i])]

\* mutant of UnregisterLoop: the first removal that raises ends the loop
UnregisterLoopStops(tools, failing) ==
    LET bad == {i \in DOMAIN tools : tools[i].name \in failing}
    IN  SelectSeq([i \in DOMAIN tools |-> i], LAMBDA i : \A j \in bad : i <= j)

\* the loop of unregister_mcp_tools: the positions of registered_tools for
\* which tool_registry.unregister_tool is called
UnregisterLoop(tools, failing) == [i \in DOMAIN tools |-> i]

\* a dict with one key set
DictSet(d, key, value) ==
    [k \in DOMAIN d \cup {key} |-> IF k = key THEN value ELSE d[k]]

\* the tool classes of descriptors, their name and server
ClassesOf(tools) == [i \in DOMAIN tools |-> ToolClass(tools[i])]

\* the history after a discovery and its filtering for project_id
Discovered(hist, project_id, queried, tools, allowed) ==
    LET asked == IF queried
                 THEN [hist EXCEPT !.answered = DictSet(@, project_id, ClassesOf(tools)),
                                   !.queries[project_id] = @ + 1]
                 ELSE hist
    IN  [asked EXCEPT !.filtered = DictSet(@, project_id, ClassesOf(allowed))]

\* the history after the tool classes added were appended for project_id
Tracked(hist, project_id, added) ==
    [hist EXCEPT !.by = @ \o [i \in DOMAIN added |-> project_id]]

\* mutant of RegisterOutcome: every discovered descriptor is registered,
\* accepted by the gating or not
RegisterOutcomeUnfiltered(cache, registered, project_id, fresh, failing) ==
    LET found == DiscoverAvailableTools(cache, project_id, fresh)
        allowed == FilterToolsByGating(gwConfig, found.tools, project_id)
        added == RegisterLoop(found.tools, failing)
    IN  [queried |-> found.queried,
         discovered |-> found.tools,
         accepted |-> allowed,
         attempted |-> RegistryCalls(found.tools),
         added |-> added,
         registered |-> registered \o added,
         cache |-> [found.cache EXCEPT ![project_id] = PopClients(found.tools, found.tools)]]

\* the body of register_mcp_tools for an enabled gateway
RegisterOutcome(cache, registered, project_id, fresh, failing) ==
    LET found == DiscoverAvailableTools(cache, project_id, fresh)
        allowed == FilterToolsByGating(gwConfig, found.tools, project_id)
        added == RegisterLoop(allowed, failing)
    IN  [queried |-> found.queried,
         discovered |-> found.tools,
         accepted |-> allowed,
         attempted |-> RegistryCalls(allowed),
         added |-> added,
         registered |-> registered \o added,
         cache |-> [found.cache EXCEPT ![project_id] = PopClients(found.tools, allowed)]]

\* a gateway is constructed with a server manager, a host registry and a
\* configuration; enabled = config.get("enabled", True)
RegistrationInit ==
    /\ gwConfig \in RegistrationConfigs
    /\ gwQuery = NoQuery
    /\ gwEnabled \in BOOLEAN
    /\ RegistrationFresh

\* mutant of RegisterMcpTools: the "if not self.enabled" guard is missing
RegisterMcpToolsUnguarded(project_id, fresh, failing) ==
    LET o == RegisterOutcome(tool_cache, registered_tools, project_id, fresh, failing)
    IN  /\ Len(o.registered) <= MaxRegistered
        /\ registered_tools' = o.registered
        /\ tool_cache' = o.cache
        /\ gwEvent' = [NoGwEvent EXCEPT !.op = "register_mcp_tools", !.project = project_id,
                          !.queried = o.queried, !.discovered = o.discovered,
                          !.accepted = o.accepted, !.attempted = o.attempted,
                          !.registered = o.added, !.failing = failing]
        /\ gwHistory' = Tracked(Discovered(gwHistory, project_id, o.queried, o.discovered,
                                           o.accepted),
                                project_id, o.added)
        /\ UNCHANGED <<gwConfig, gwQuery, gwEnabled>>
        /\ UNCHANGED <<clientVars, managerVars, wrapperVars>>

\* register_mcp_tools(project_id): the manager answers fresh when it is
\* asked; register_tool raises for the tool names in failing
RegisterMcpTools(project_id, fresh, failing) ==
    /\ IF ~gwEnabled
       THEN /\ gwEvent' = [NoGwEvent EXCEPT !.op = "register_mcp_tools",
                                            !.project = project_id]
            /\ UNCHANGED <<registered_tools, tool_cache, gwHistory>>
       ELSE LET o == RegisterOutcome(tool_cache, registered_tools, project_id, fresh, failing)
            IN  /\ Len(o.registered) <= MaxRegistered
                /\ registered_tools' = o.registered
                /\ tool_cache' = o.cache
                /\ gwEvent' = [NoGwEvent EXCEPT
                                  !.op = "register_mcp_tools", !.project = project_id,
                                  !.queried = o.queried, !.discovered = o.discovered,
                                  !.accepted = o.accepted, !.attempted = o.attempted,
                                  !.registered = o.added, !.failing = failing]
                /\ gwHistory' = Tracked(Discovered(gwHistory, project_id, o.queried,
                                                   o.discovered, o.accepted),
                                        project_id, o.added)
    /\ UNCHANGED <<gwConfig, gwQuery, gwEnabled>>
    /\ UNCHANGED <<clientVars, managerVars, wrapperVars>>

\* unregister_mcp_tools(): unregister_tool raises for the tool names in failing
UnregisterMcpTools(failing) ==
    /\ IF ~gwEnabled
       THEN /\ gwEvent' = [NoGwEvent EXCEPT !.op = "unregister_mcp_tools"]
            /\ UNCHANGED <<registered_tools, tool_cache, gwHistory>>
       ELSE LET calls == UnregisterLoop(registered_tools, failing)
            IN  /\ registered_tools' = <<>>
                /\ tool_cache' = EmptyDict
                /\ gwEvent' = [NoGwEvent EXCEPT
                                  !.op = "unregister_mcp_tools",
                                  !.removed = [i \in DOMAIN calls |-> registered_tools[calls[i]]],
                                  !.failing = failing]
                /\ gwHistory' = NoHistory
    /\ UNCHANGED <<gwConfig, gwQuery, gwEnabled>>
    /\ UNCHANGED <<clientVars, managerVars, wrapperVars>>

\* mutant of RefreshTools: registers again without invalidating and
\* unregistering first
RefreshToolsStale(project_id, fresh, failing) ==
    /\ gwEnabled
    /\ LET o == RegisterOutcome(tool_cache, registered_tools, project_id, fresh, {})
       IN  /\ Len(o.registered) <= MaxRegistered
           /\ registered_tools' = o.registered
           /\ tool_cache' = o.cache
           /\ gwEvent' = [NoGwEvent EXCEPT
                             !.op = "refresh_tools", !.project = project_id,
                             !.queried = o.queried, !.discovered = o.discovered,
                             !.accepted = o.accepted, !.attempted = o.attempted,
                             !.registered = o.added, !.failing = failing]
           /\ gwHistory' = Tracked(Discovered(gwHistory, project_id, o.queried,
                                              o.discovered, o.accepted),
                                   project_id, o.added)
    /\ UNCHANGED <<gwConfig, gwQuery, gwEnabled>>
    /\ UNCHANGED <<clientVars, managerVars, wrapperVars>>

\* refresh_tools(project_id): self._tool_cache.pop(project_id, None), then
\* unregister_mcp_tools(), then register_mcp_tools(project_id); the registry
\* raises for the tool names in failing, when removing and when registering
RefreshTools(project_id, fresh, failing) ==
    /\ IF ~gwEnabled
       THEN /\ gwEvent' = [NoGwEvent EXCEPT !.op = "refresh_tools", !.project = project_id]
            /\ UNCHANGED <<registered_tools, tool_cache, gwHistory>>
       ELSE LET popped == [p \in DOMAIN tool_cache \ {project_id} |-> tool_cache[p]]
                calls == UnregisterLoop(registered_tools, failing)
                \* unregister_mcp_tools leaves no tracked tool and no cache entry
                o == RegisterOutcome(EmptyDict, <<>>, project_id, fresh, failing)
            IN  /\ Len(o.registered) <= MaxRegistered
                /\ registered_tools' = o.registered
                /\ tool_cache' = o.cache
                /\ gwEvent' = [NoGwEvent EXCEPT
                                  !.op = "refresh_tools", !.project = project_id,
                                  !.queried = o.queried, !.discovered = o.discovered,
                                  !.accepted = o.accepted, !.attempted = o.attempted,
                                  !.registered = o.added,
                                  !.removed = [i \in DOMAIN calls |-> registered_tools[calls[i]]],
                                  !.failing = failing]
                /\ gwHistory' = Tracked(Discovered(NoHistory, project_id, o.queried,
                                                   o.discovered, o.accepted),
                                        project_id, o.added)
    /\ UNCHANGED <<gwConfig, gwQuery, gwEnabled>>
    /\ UNCHANGED <<clientVars, managerVars, wrapperVars>>

\* get_mcp_tool_info(project_id): discovery and filter; it does not look at
\* self.enabled
GetMcpToolInfo(project_id, fresh) ==
    LET found == DiscoverAvailableTools(tool_cache, project_id, fresh)
    IN  /\ tool_cache' = found.cache
        /\ gwEvent' = [NoGwEvent EXCEPT
                          !.op = "get_mcp_tool_info", !.project = project_id,
                          !.queried = found.queried, !.discovered = found.tools,
                          !.accepted = FilterToolsByGating(gwConfig, found.tools, project_id)]
        /\ gwHistory' = Discovered(gwHistory, project_id, found.queried, found.tools,
                                   FilterToolsByGating(gwConfig, found.tools, project_id))
        /\ UNCHANGED <<gwConfig, gwQuery, gwEnabled, registered_tools>>
        /\ UNCHANGED <<clientVars, managerVars, wrapperVars>>

\* the tool names for which one registry call sequence raises: none or one
RegistryFailures == {{}} \cup {{n} : n \in ToolNames}

\* what the manager is asked in a call: nothing (written <<>>) when the
\* cache answers
AnswersFor(project_id) ==
    IF project_id \in DOMAIN tool_cache THEN {<<>>} ELSE ManagerAnswers

\* a call of register_mcp_tools with its inputs
RegisterMcpToolsCall ==
    \E project_id \in ProjectIds :
       \E fresh \in (IF gwEnabled THEN AnswersFor(project_id) ELSE {<<>>}) :
          \E failing \in (IF gwEnabled THEN RegistryFailures ELSE {{}}) :
             RegisterMcpTools(project_id, fresh, failing)

\* a call of unregister_mcp_tools with its inputs
UnregisterMcpToolsCall ==
    \E failing \in (IF gwEnabled THEN RegistryFailures ELSE {{}}) : UnregisterMcpTools(failing)

\* a call of refresh_tools with its inputs
RefreshToolsCall ==
    \E project_id \in ProjectIds :
       \E fresh \in (IF gwEnabled THEN ManagerAnswers ELSE {<<>>}) :
          \E failing \in (IF gwEnabled THEN RegistryFailures ELSE {{}}) :
             RefreshTools(project_id, fresh, failing)

\* a call of get_mcp_tool_info with its inputs
GetMcpToolInfoCall ==
    \E project_id \in ProjectIds :
       \E fresh \in AnswersFor(project_id) : GetMcpToolInfo(project_id, fresh)

RegistrationNext ==
    \/ RegisterMcpToolsCall
    \/ UnregisterMcpToolsCall
    \/ RefreshToolsCall
    \/ GetMcpToolInfoCall

(* ------------------------------ wrapper ------------------------------- *)

\* A Python value: its class and a token of its content.  bool is a subclass
\* of int, which isinstance sees.
Py(class, v) == [py |-> class, v |-> v]

PyValues ==
    { Py("str", "a"), Py("int", "1"), Py("int", "2"), Py("float", "1.5"), Py("bool", "True"),
      Py("list", "[]"), Py("dict", "{}"), Py("NoneType", "None") }

\* isinstance(value, classes)
IsInstance(value, classes) ==
    \/ value.py \in classes
    \/ value.py = "bool" /\ "int" \in classes

\* the JSON schema types _check_type knows
SchemaTypes == {"string", "integer", "number", "boolean", "array", "object"}

\* mutant of CheckType: every value passes
CheckTypeAny(value, expected_type) == TRUE

\* _check_type; expected_type is "-" when the property schema has no "type"
CheckType(value, expected_type) ==
    CASE expected_type = "string" -> IsInstance(value, {"str"})
      [] expected_type = "integer" -> IsInstance(value, {"int"})
      [] expected_type = "number" -> IsInstance(value, {"int", "float"})
      [] expected_type = "boolean" -> IsInstance(value, {"bool"})
      [] expected_type = "array" -> IsInstance(value, {"list"})
      [] expected_type = "object" -> IsInstance(value, {"dict"})
      [] OTHER -> TRUE

\* the names of the schema properties and of one argument the schema does
\* not declare
PropNames == {"p", "q"}
ArgNames == PropNames \cup {"e"}

\* a property schema: prop_schema.get("type"), "default" in prop_schema,
\* prop_schema["default"]
PropSchema(type, has_default, default) ==
    [type |-> type, has_default |-> has_default, default |-> default]

\* an input schema: schema.get("required", []) in list order,
\* schema.get("properties", {})
InputSchema(required, properties) == [required |-> required, properties |-> properties]

\* the input schemas of the wrappers explored: p of any type, required or
\* not, with or without default; q an optional integer with default 2 or a
\* required string
InputSchemas ==
    { InputSchema(rq,
                  [n \in PropNames |-> IF n = "p" THEN PropSchema(t, hd, Py("int", "2"))
                                       ELSE qs]) :
        t \in SchemaTypes \cup {"-"},
        hd \in BOOLEAN,
        qs \in {PropSchema("integer", TRUE, Py("int", "2")),
                PropSchema("string", FALSE, Py("NoneType", "None"))},
        rq \in {<<>>, <<"p">>, <<"q", "p">>} }

\* the keyword arguments of a call: a dict from argument names to values
ArgumentDicts ==
    { a \in UNION { [names -> PyValues] : names \in SUBSET ArgNames } :
        /\ "q" \in DOMAIN a => a["q"] \in {Py("int", "1"), Py("str", "a"), Py("bool", "True")}
        /\ "e" \in DOMAIN a => a["e"] = Py("str", "a") }

\* the orders in which a caller may have given the arguments it gave
ArgumentOrders(arguments) ==
    { SelectSeq(o, LAMBDA n : n \in DOMAIN arguments) :
         o \in {<<"p", "q", "e">>, <<"q", "e", "p">>} }

\* _validate_arguments: the required properties in list order, then the
\* supplied arguments in the order the caller gave them
RECURSIVE FirstMissing(_, _, _)
FirstMissing(required, arguments, i) ==
    IF i > Len(required) THEN "-"
    ELSE IF required[i] \notin DOMAIN arguments THEN required[i]
    ELSE FirstMissing(required, arguments, i + 1)

RECURSIVE FirstMistyped(_, _, _, _)
FirstMistyped(properties, arguments, order, i) ==
    IF i > Len(order) THEN "-"
    ELSE IF /\ order[i] \in DOMAIN properties
            /\ ~CheckType(arguments[order[i]], properties[order[i]].type)
         THEN order[i]
    ELSE FirstMistyped(properties, arguments, order, i + 1)

\* _validate_arguments: (is_valid, error), the error as its kind and the
\* argument it names
ValidateArguments(schema, arguments, order) ==
    LET missing == FirstMissing(schema.required, arguments, 1)
        mistyped == FirstMistyped(schema.properties, arguments, order, 1)
    IN  IF missing # "-" THEN [valid |-> FALSE, error |-> "missing_required", named |-> missing]
        ELSE IF mistyped # "-"
             THEN [valid |-> FALSE, error |-> "invalid_type", named |-> mistyped]
        ELSE [valid |-> TRUE, error |-> "-", named |-> "-"]

\* mutant of ApplyDefaults: a declared default replaces the caller's value
ApplyDefaultsOverrides(schema, arguments) ==
    LET defaulted == {n \in DOMAIN schema.properties : schema.properties[n].has_default}
    IN  [n \in DOMAIN arguments \cup defaulted |->
            IF n \in defaulted THEN schema.properties[n].default ELSE arguments[n]]

\* _apply_defaults: the arguments dict after the call
ApplyDefaults(schema, arguments) ==
    LET added == {n \in DOMAIN schema.properties :
                     n \notin DOMAIN arguments /\ schema.properties[n].has_default}
    IN  [n \in DOMAIN arguments \cup added |->
            IF n \in DOMAIN arguments THEN arguments[n] ELSE schema.properties[n].default]

\* no call_tool yet, or its result has been taken
NoCall ==
    [op |-> "-", arguments |-> EmptyDict, order |-> <<>>, outcome |-> "-",
     called |-> FALSE, sent |-> EmptyDict, raised |-> FALSE, success |-> FALSE,
     output |-> "-", named |-> "-"]

\* a wrapper the other specifications do not use
WrapperIdle ==
    /\ wrapSchema = InputSchema(<<>>, [n \in PropNames |-> PropSchema("-", FALSE, Py("NoneType", "None"))])
    /\ wrapConnected = TRUE
    /\ wrapCall = NoCall

\* MCPToolWrapper(mcp_client, tool_definition) for any schema of the model,
\* on a client that is connected or not
WrapperInit ==
    /\ wrapSchema \in InputSchemas
    /\ wrapConnected \in BOOLEAN
    /\ wrapCall = NoCall

\* the result of a call_tool that got past the connection check
\* and the validation, from what mcp_client.call_tool did
ClientCallResult(call, outcome) ==
    CASE outcome = "returns" -> [call EXCEPT !.success = TRUE, !.output = "result"]
      [] outcome = "is_error" -> [call EXCEPT !.success = FALSE, !.output = "tool_error"]
      [] outcome = "raises" -> [call EXCEPT !.success = FALSE, !.output = "exception"]

\* mutant of WrapperCallTool: the connection check is missing; the client's
\* call_tool raises on a client that is not connected
WrapperCallToolUnchecked(arguments, order, outcome) ==
    LET v == ValidateArguments(wrapSchema, arguments, order)
        call == [NoCall EXCEPT !.op = "call_tool", !.arguments = arguments,
                               !.order = order, !.outcome = outcome]
    IN  /\ wrapCall = NoCall
        /\ wrapCall' =
             IF ~v.valid
             THEN [call EXCEPT !.output = v.error, !.named = v.named]
             ELSE ClientCallResult([call EXCEPT !.called = TRUE,
                                                !.sent = ApplyDefaults(wrapSchema, arguments)],
                                   IF wrapConnected THEN outcome ELSE "raises")
        /\ UNCHANGED <<wrapSchema, wrapConnected>>
        /\ UNCHANGED <<clientVars, gatewayVars, managerVars>>

\* MCPToolWrapper.call_tool(**kwargs); outcome is what mcp_client.call_tool
\* does when it is reached: it returns a result, returns a result with
\* isError, or raises
WrapperCallTool(arguments, order, outcome) ==
    LET v == ValidateArguments(wrapSchema, arguments, order)
        call == [NoCall EXCEPT !.op = "call_tool", !.arguments = arguments,
                               !.order = order, !.outcome = outcome]
    IN  /\ wrapCall = NoCall
        /\ wrapCall' =
             IF ~wrapConnected
             THEN [call EXCEPT !.output = "not_connected"]
             ELSE IF ~v.valid
             THEN [call EXCEPT !.output = v.error, !.named = v.named]
             ELSE ClientCallResult([call EXCEPT !.called = TRUE,
                                                !.sent = ApplyDefaults(wrapSchema, arguments)],
                                   outcome)
        /\ UNCHANGED <<wrapSchema, wrapConnected>>
        /\ UNCHANGED <<clientVars, gatewayVars, managerVars>>

\* the caller has its ToolResult; call_tool keeps nothing from one call to
\* the next
WrapperResultTaken ==
    /\ wrapCall # NoCall
    /\ wrapCall' = NoCall
    /\ UNCHANGED <<wrapSchema, wrapConnected>>
    /\ UNCHANGED <<clientVars, gatewayVars, managerVars>>

\* a call of call_tool with its inputs
WrapperCallToolCall ==
    \E arguments \in ArgumentDicts :
       \E order \in ArgumentOrders(arguments) :
          \E outcome \in {"returns", "is_error", "raises"} :
             WrapperCallTool(arguments, order, outcome)

WrapperNext ==
    \/ WrapperCallToolCall
    \/ WrapperResultTaken

Init == ClientInit /\ GatewayIdle /\ ManagerIdle /\ WrapperIdle

Next == ClientNext

Spec == Init /\ [][Next]_vars

\* The event loop resumes every coroutine whose awaited future is resolved:
\* a send_request whose future holds a result or was cancelled does return.
LiveSpec == Spec /\ \A id \in Ids : WF_vars(Return(id))

\* the gating policy, evaluated for every configuration, project and tool list
GateInit == ClientInit /\ GatewayInit /\ ManagerIdle /\ WrapperIdle

GateSpec == GateInit /\ [][GatewayNext]_vars

\* the manager, for every configuration list of the model
MgrInit == ClientInit /\ GatewayIdle /\ ManagerInit /\ WrapperIdle

MgrSpec == MgrInit /\ [][ManagerNext]_vars

\* the gateway's registration, for every configuration of RegistrationConfigs
RegInit == ClientInit /\ RegistrationInit /\ ManagerIdle /\ WrapperIdle

RegSpec == RegInit /\ [][RegistrationNext]_vars

\* one tool wrapper, for every input schema of the model
WrapInit == ClientInit /\ GatewayIdle /\ ManagerIdle /\ WrapperInit

WrapSpec == WrapInit /\ [][WrapperNext]_vars

(* ------------------------------ claims -------------------------------- *)

RequestApis == {"list_tools", "call_tool", "send_request"}

DisconnectReturned == event.op = "disconnect" /\ event.out = "ok"

\* C1: whatever the number of concurrent requests and the arrival order of
\* the responses, a resolved future holds the response that carries the id
\* allocated to its own request, and the caller that returns with a result or
\* an RPC error is handed that response and no other.
C1_ResponseMatchesCaller ==
    /\ \A id \in Ids : req[id].fut \in {"result", "error"} => req[id].got = id
    /\ (event.op = "return" /\ event.out \in {"result", "rpc_error"}) => event.got = event.id

\* C1 witness: request 3 returned its result while request 2, sent before it,
\* still waits for its response.
C1_Witness ==
    /\ event.op = "return" /\ event.out = "result" /\ event.id = 3
    /\ req[2].st = "inflight" /\ req[2].owner = "user" /\ req[2].fut = "pending"

\* C2: a request that times out fails with the timeout error and removes only
\* its own entry of the pending map; every other request keeps its entry and
\* its future untouched, and a later response carrying its id still completes
\* it.
C2_TimeoutIsLocal ==
    [][(event'.op = "return" /\ event'.out = "timeout") =>
         /\ event'.id \in pending_requests
         /\ pending_requests' = pending_requests \ {event'.id}
         /\ \A j \in Ids \ {event'.id} :
              /\ req'[j] = req[j]
              /\ (j \in pending_requests /\ req[j].fut = "pending") =>
                     HandleResponseTarget(pending_requests', req', j) = j]_vars

\* C2 witness: a request timed out while another one is still pending.
C2_Witness ==
    /\ event.op = "return" /\ event.out = "timeout"
    /\ \E j \in pending_requests : req[j].owner = "user" /\ req[j].fut = "pending"

\* C3: once disconnect() has returned the client is not connected and the
\* pending map is empty, and every send_request that was in flight when
\* disconnect() was called returns (the scheduler resuming resolved futures).
C3_DisconnectReleasesCallers ==
    /\ [](DisconnectReturned => ~connected /\ pending_requests = {})
    /\ \A id \in Ids :
         (event.op = "disconnect" /\ req[id].st = "inflight") ~> (req[id].st = "returned")

\* C3 witness: disconnect() has returned while two callers whose requests it
\* cancelled have not yet been resumed.
C3_Witness ==
    /\ DisconnectReturned
    /\ req[2].st = "inflight" /\ req[2].fut = "cancelled"
    /\ req[3].st = "inflight" /\ req[3].fut = "cancelled"

\* C4 (as claimed): when the initialize request fails with an error response
\* or a timeout, connect() leaves the client not connected and the subprocess
\* it started is no longer running.
C4_FailedHandshakeStopsTransport ==
    (event.op = "connect" /\ event.out = "handshake_failed") =>
        /\ ~connected
        /\ process = NoProcess \/ procState[process] # "running"

\* C5 (as claimed): once disconnect() was called on a connected client, the
\* instance is never connected again.
C5_ClosedIsTerminal == closed => ~connected

\* C6 (as claimed): when the read loop observes end-of-file while the client
\* is Ready (connected, no connect() or disconnect() under way), the client
\* leaves the Ready state.
C6_EofLeavesReady ==
    [][(event'.op = "read" /\ event'.out = "eof" /\ connected /\ lc = "idle")
          => ~connected']_vars

\* C7: a disconnect() that returns leaves the client not connected, with an
\* empty pending map and self.process None, and the subprocess it held is
\* terminated; when that subprocess was the only one running, none runs.
C7_DisconnectClosesTransport ==
    [][(event'.op = "disconnect" /\ event'.out = "ok") =>
         /\ ~connected'
         /\ pending_requests' = {}
         /\ process' = NoProcess
         /\ process # NoProcess => procState'[process] = "terminated"
         /\ (\A p \in Procs : p # process => procState[p] # "running")
                => (\A p \in Procs : procState'[p] # "running")]_vars

\* C7 witness: connect() reached Ready (only the initialize request was ever
\* sent) and the disconnect() that followed has returned.
C7_Witness ==
    /\ DisconnectReturned
    /\ request_id = 1 /\ initialized = {1}
    /\ procState[1] = "terminated"

\* C8: list_tools, call_tool and send_request on a client that is not
\* connected fail with "Client not connected" and allocate no request id,
\* register no pending entry and write nothing to any subprocess.
C8_NotConnectedFailsFast ==
    [][(event'.op \in RequestApis /\ ~connected) =>
         /\ event'.out = "not_connected"
         /\ UNCHANGED <<request_id, pending_requests, req, stdin, response_task>>]_vars

\* C8 witness: a call_tool was refused on a client whose handshake had
\* succeeded before it was disconnected.
C8_Witness ==
    /\ event.op = "call_tool" /\ event.out = "not_connected"
    /\ closed /\ initialized # {}

\* C9: disconnect() called again right after a disconnect() that returned, or
\* on a client that never connected, or whenever the client is not connected
\* and holds no process, returns without error, terminates nothing and leaves
\* the client state as it was (not connected, no process, empty pending map).
C9_DisconnectIdempotent ==
    [][(/\ event'.op = "disconnect"
        /\ lc = "idle"
        /\ \/ DisconnectReturned
           \/ event.op = "init"
           \/ ~connected /\ process = NoProcess) =>
         /\ event'.out = "ok"
         /\ ~connected' /\ process' = NoProcess /\ pending_requests' = {}
         /\ UNCHANGED <<connected, process, procState, request_id, pending_requests,
                        req, stdin, initialized, response_task, lc>>]_vars

\* C9 witness: a second disconnect() has returned on a client whose first
\* disconnect() terminated its subprocess.
C9_Witness ==
    /\ DisconnectReturned
    /\ process = NoProcess /\ closed
    /\ \E p \in Procs : procState[p] = "terminated"
    /\ response_task.st = "done"

\* the configured gating mode (the one _filter_tools_by_gating reads)
ConfiguredMode == DictGet(gwConfig.tool_gating, "mode", "all")

\* the value the effective policy of a project gives a key: the override's
\* when the project has an override holding the key, else the base policy's,
\* else unset
EffectiveSetting(project_id, key) ==
    LET ov == gwConfig.project_overrides IN
    IF project_id \in DOMAIN ov /\ key \in DOMAIN ov[project_id] THEN ov[project_id][key]
    ELSE IF key \in DOMAIN gwConfig.tool_gating THEN gwConfig.tool_gating[key]
    ELSE NoneValue

InSeq(x, sq) == \E i \in 1..Len(sq) : sq[i] = x

\* C10: with mode all or selective, a descriptor is accepted if and only if
\* its name is not in the effective blocked-tools, and the effective
\* allowed-servers is unset or holds its origin server, and the effective
\* allowed-tools is unset or holds its name; a blocked name is rejected
\* whatever the allow lists say.
C10_GatingDecision ==
    (gwQuery.project \in ProjectIds /\ ConfiguredMode \in {"all", "selective"}) =>
        \A i \in 1..Len(gwQuery.tools) :
            LET d == gwQuery.tools[i]
                blocked == EffectiveSetting(gwQuery.project, "blocked_tools")
                servers == EffectiveSetting(gwQuery.project, "allowed_servers")
                names == EffectiveSetting(gwQuery.project, "allowed_tools")
            IN  /\ InSeq(d, gwQuery.allowed) <=>
                      /\ d.name \notin blocked.items
                      /\ servers.none \/ d.server_name \in servers.items
                      /\ names.none \/ d.name \in names.items
                /\ d.name \in blocked.items => ~InSeq(d, gwQuery.allowed)

\* C10 witness: mode selective, allowed_servers = [A], blocked_tools = [x] and
\* x is also on the allowed-tools list: x from A is rejected, y from A is
\* accepted, y from B is rejected.
C10_Witness ==
    /\ gwQuery.project = "Q"
    /\ ConfiguredMode = "selective"
    /\ EffectiveSetting("Q", "allowed_servers") = ListValue({"A"})
    /\ EffectiveSetting("Q", "blocked_tools") = ListValue({"x"})
    /\ EffectiveSetting("Q", "allowed_tools") = ListValue({"x", "y"})
    /\ Len(gwQuery.tools) = 4
    /\ gwQuery.allowed = <<Descriptor("y", "A")>>

\* the configuration with the gating mode set to m
WithMode(config, m) ==
    [config EXCEPT !.tool_gating = DictUpdate(@, [k \in {"mode"} |-> m])]

\* C11: with the configured mode none the list register_mcp_tools hands to
\* registration is empty whatever the allow and block lists hold; with all
\* and selective the accepted list is the same: swapping one mode for the
\* other in the configuration changes nothing for the tool list and project.
C11_ModeNoneAndAllSelective ==
    gwQuery.project \in ProjectIds =>
        /\ ConfiguredMode = "none" => gwQuery.allowed = <<>>
        /\ ConfiguredMode \in {"all", "selective"} =>
              /\ gwQuery.allowed =
                    FilterToolsByGating(WithMode(gwConfig, "all"), gwQuery.tools, gwQuery.project)
              /\ gwQuery.allowed =
                    FilterToolsByGating(WithMode(gwConfig, "selective"), gwQuery.tools,
                                        gwQuery.project)

\* C11 witness: mode selective with no allowed-tools list accepts a tool, as
\* mode all does.
C11_Witness ==
    /\ gwQuery.project = "Q"
    /\ "mode" \in DOMAIN gwConfig.tool_gating /\ ConfiguredMode = "selective"
    /\ EffectiveSetting("Q", "allowed_tools").none
    /\ gwQuery.allowed # <<>>

\* C11 second witness state, mode none with permissive lists
C11_NoneWitness ==
    /\ gwQuery.project = "Q"
    /\ ConfiguredMode = "none"
    /\ Len(gwQuery.tools) = 4 /\ gwQuery.allowed = <<>>
    /\ EffectiveSetting("Q", "blocked_tools").items = {}

\* C12: the effective policy of a project holds, for every key of its
\* override, the override's value alone, and for every other key the base
\* value; a project without override gets the base policy.  Hence a tool the
\* base policy blocks and the override of the project un-blocks is accepted
\* for that project (the allow lists permitting) and rejected for a project
\* without override.
C12_OverrideReplaces ==
    /\ \A p \in ProjectIds :
         LET eff == GetEffectiveConfig(gwConfig, p)
             base == gwConfig.tool_gating
             ovs == gwConfig.project_overrides
         IN  IF p \in DOMAIN ovs
             THEN /\ DOMAIN eff = DOMAIN base \cup DOMAIN ovs[p]
                  /\ \A k \in DOMAIN ovs[p] : eff[k] = ovs[p][k]
                  /\ \A k \in DOMAIN base \ DOMAIN ovs[p] : eff[k] = base[k]
             ELSE eff = base
    /\ (gwQuery.project \in ProjectIds /\ ConfiguredMode \in {"all", "selective"}) =>
         \A i \in 1..Len(gwQuery.tools) :
            LET d == gwQuery.tools[i]
                base == gwConfig.tool_gating
                ovs == gwConfig.project_overrides
                p == gwQuery.project
            IN  ("blocked_tools" \in DOMAIN base /\ d.name \in base["blocked_tools"].items) =>
                  /\ p \notin DOMAIN ovs => ~InSeq(d, gwQuery.allowed)
                  /\ (/\ p \in DOMAIN ovs
                      /\ "blocked_tools" \in DOMAIN ovs[p]
                      /\ d.name \notin ovs[p]["blocked_tools"].items
                      /\ LET srv == EffectiveSetting(p, "allowed_servers")
                             nm == EffectiveSetting(p, "allowed_tools")
                         IN  /\ srv.none \/ d.server_name \in srv.items
                             /\ nm.none \/ d.name \in nm.items)
                       => InSeq(d, gwQuery.allowed)

\* C12 witness: base blocked_tools = [x], the override of P sets
\* blocked_tools = [], and x from server A was accepted for P.
C12_Witness ==
    /\ gwQuery.project = "P"
    /\ "P" \in DOMAIN gwConfig.project_overrides
    /\ DictGet(gwConfig.tool_gating, "blocked_tools", NoneValue) = ListValue({"x"})
    /\ DictGet(gwConfig.project_overrides["P"], "blocked_tools", NoneValue) = ListValue({})
    /\ InSeq(Descriptor("x", "A"), gwQuery.allowed)

\* the mode of the effective policy of a project
EffectiveMode(project_id) ==
    LET ov == gwConfig.project_overrides IN
    IF project_id \in DOMAIN ov /\ "mode" \in DOMAIN ov[project_id] THEN ov[project_id]["mode"]
    ELSE ConfiguredMode

\* C13 (as claimed): when the override of a project sets mode none while the
\* base mode is all or selective, no tool is accepted for that project.
C13_ModeOverrideHonoured ==
    (/\ gwQuery.project \in ProjectIds
     /\ ConfiguredMode \in {"all", "selective"}
     /\ EffectiveMode(gwQuery.project) = "none") => gwQuery.allowed = <<>>

\* the tool names a client contributes when its list_tools returns: the tools
\* its server serves, restricted to the allowed_tools of the server's
\* configuration when there is one
ContributedNames(c) ==
    LET cfg == server_configs[clients[c].name]
    IN  {t \in Range(ServedTools[clients[c].name]) :
            cfg.allowed_tools.none \/ t \in cfg.allowed_tools.items}

C15_DescriptorsTaggedAndAllowed ==
    mgrEvent.op = "get_available_tools" =>
        /\ \A i \in DOMAIN mgrEvent.result :
              LET d == mgrEvent.result[i]
                  cfg == server_configs[d.server_name]
              IN  /\ d.client \in Range(connected_clients) \ mgrEvent.failed
                  /\ d.server_name = clients[d.client].name
                  /\ d.name \in Range(ServedTools[d.server_name])
                  /\ ~cfg.allowed_tools.none => d.name \in cfg.allowed_tools.items
        /\ \A c \in Range(connected_clients) \ mgrEvent.failed :
              server_configs[clients[c].name].allowed_tools.none =>
                 \A t \in Range(ServedTools[clients[c].name]) :
                    InSeq(TaggedTool(t, clients[c].name, c), mgrEvent.result)

\* C15 witness: one server with an allow-list that drops one of its tools
\* and one server without allow-list both contributed.
C15_Witness ==
    /\ mgrEvent.op = "get_available_tools"
    /\ \E c \in Range(connected_clients) \ mgrEvent.failed :
          /\ ~server_configs[clients[c].name].allowed_tools.none
          /\ ContributedNames(c) # Range(ServedTools[clients[c].name])
    /\ \E i \in DOMAIN mgrEvent.result :
          server_configs[mgrEvent.result[i].server_name].allowed_tools.none
    /\ \E i \in DOMAIN mgrEvent.result :
          ~server_configs[mgrEvent.result[i].server_name].allowed_tools.none

\* the servers connect_to_servers is to connect for a project: enabled, and
\* of scope global, project, or the project's id
ApplicableServers(project_id) ==
    {n \in ServerNames : /\ server_configs[n].enabled
                         /\ server_configs[n].project_scope \in {"global", "project", project_id}}

\* every entry of the routing table binds a tool to a connected client whose
\* server serves and allows it
RoutingTableSound ==
    \A t \in DOMAIN tool_to_client_map :
       /\ tool_to_client_map[t] \in Range(connected_clients)
       /\ t \in ContributedNames(tool_to_client_map[t])

\* C16: connect_to_servers creates and connects one client per applicable
\* configuration and returns without raising whichever connections fail;
\* afterwards connected_clients holds, once each, exactly the owned clients
\* whose connect succeeded (in this call or an earlier one), and the routing
\* table binds only tools of these clients.
C16_ConnectToServers ==
    mgrEvent.op = "connect_to_servers" =>
        /\ mgrEvent.raised = "-"
        /\ {clients[i].name : i \in mgrEvent.attempted} = ApplicableServers(mgrEvent.project)
        /\ Cardinality(mgrEvent.attempted) = Cardinality(ApplicableServers(mgrEvent.project))
        /\ Range(connected_clients) = mgrEvent.before \cup mgrEvent.succeeded
        /\ \A i \in ClientIds(clients) : clients[i].connected <=> i \in Range(connected_clients)
        /\ \A i, j \in DOMAIN connected_clients :
              connected_clients[i] = connected_clients[j] => i = j
        /\ RoutingTableSound

\* C16 witness: of three connections attempted one failed and a later one
\* succeeded, one configuration was not applicable, and the table is not empty.
C16_Witness ==
    /\ mgrEvent.op = "connect_to_servers"
    /\ ApplicableServers(mgrEvent.project) # ServerNames
    /\ \E i, j \in mgrEvent.attempted :
          i < j /\ ~clients[i].connected /\ clients[j].connected
    /\ DOMAIN tool_to_client_map # {}

C17_NotFoundWitness ==
    /\ mgrEvent.op = "call_tool"
    /\ connected_clients # <<>>
    /\ mgrEvent.tool \in ToolNames
    /\ mgrEvent.raised = "not_found"

\* C18: retry_failed_connections calls connect on the owned clients that are
\* not connected and on no other; afterwards connected_clients is the
\* clients connected before plus those whose retry succeeded, and the routing
\* table is that of a rebuild from them; without a current project it
\* attempts nothing and changes nothing.
C18_RetryOnlyFailed ==
    [][ mgrEvent'.op = "retry_failed_connections" =>
          LET was == {i \in ClientIds(clients) : clients[i].connected}
          IN  /\ mgrEvent'.attempted \cap was = {}
              /\ current_project_id = NoProject =>
                    /\ mgrEvent'.attempted = {}
                    /\ UNCHANGED <<clients, connected_clients, tool_to_client_map>>
              /\ current_project_id # NoProject =>
                    /\ mgrEvent'.attempted = ClientIds(clients) \ was
                    /\ Range(connected_clients') = was \cup mgrEvent'.succeeded
                    /\ \A i \in ClientIds(clients') :
                          clients'[i].connected <=> i \in Range(connected_clients')
                    /\ RoutingTableSound'
                    /\ mgrEvent'.succeeded # {} =>
                          \A c \in Range(connected_clients') \ mgrEvent'.failed :
                             ContributedNames(c)' \subseteq DOMAIN tool_to_client_map'
    ]_vars

\* C18 witness: with one client connected and two failed, one retry
\* succeeded and the other did not.
C18_Witness ==
    /\ mgrEvent.op = "retry_failed_connections"
    /\ mgrEvent.before # {}
    /\ mgrEvent.succeeded # {}
    /\ mgrEvent.attempted \ mgrEvent.succeeded # {}
    /\ Range(connected_clients) = mgrEvent.before \cup mgrEvent.succeeded

\* C19 (as claimed): disconnect_from_servers and shutdown invoke disconnect
\* on every client the manager owns, those whose connect failed included.
C19_DisconnectsEveryOwnedClient ==
    mgrEvent.op \in {"disconnect_from_servers", "shutdown"} =>
        mgrEvent.invoked = mgrEvent.owned

\* C20 (as claimed): while get_available_tools waits for the answer of one
\* client, the tools/list request of every connected client has been issued.
C20_RequestsIssuedTogether ==
    (getTools.active /\ getTools.awaiting # NoClient) =>
        getTools.issued = Range(connected_clients)

\* the tool classes of the descriptors of a list, in order
ToolClasses(tools) == [i \in DOMAIN tools |-> ToolClass(tools[i])]

\* C21: on a gateway configured with enabled = false, register_mcp_tools,
\* unregister_mcp_tools and refresh_tools ask the server manager nothing,
\* call the host registry neither to register nor to remove, and leave
\* registered_tools and the discovery cache as they were.
C21_DisabledGatewayIsInert ==
    [][ (~gwEnabled /\ gwEvent'.op \in {"register_mcp_tools", "unregister_mcp_tools",
                                        "refresh_tools"}) =>
           /\ ~gwEvent'.queried
           /\ gwEvent'.attempted = <<>>
           /\ gwEvent'.removed = <<>>
           /\ ~gwEvent'.raised
           /\ UNCHANGED <<registered_tools, tool_cache>>
    ]_vars

\* C21 witness: refresh_tools(P) on a disabled gateway whose cache holds an
\* entry for P (put there by get_mcp_tool_info).
C21_Witness ==
    /\ ~gwEnabled
    /\ gwEvent.op = "refresh_tools"
    /\ gwEvent.project \in DOMAIN tool_cache
    /\ tool_cache[gwEvent.project] # <<>>

\* C22 (as claimed): after register_mcp_tools the tracked registered set
\* holds exactly the accepted descriptors whose host-registry registration
\* succeeded.
C22_RegisteredIsThisCallsSuccesses ==
    (gwEnabled /\ gwEvent.op = "register_mcp_tools") =>
        /\ ~gwEvent.raised
        /\ Range(registered_tools) =
              Range(ToolClasses(SelectSeq(gwEvent.attempted,
                                          LAMBDA t : t.name \notin gwEvent.failing)))

\* C22 (amended): register_mcp_tools returns without raising when a single
\* registration fails, goes on with the remaining accepted descriptors, and
\* appends to the tracked registered set, which keeps what it held, exactly
\* the accepted descriptors whose host-registry registration succeeded.
C22_RegisterAppendsSuccesses ==
    [][ (gwEnabled /\ gwEvent'.op = "register_mcp_tools") =>
           /\ ~gwEvent'.raised
           /\ \A i \in DOMAIN gwEvent'.accepted :
                 gwEvent'.accepted[i].has_client => gwEvent'.accepted[i] \in Range(gwEvent'.attempted)
           /\ registered_tools' =
                 registered_tools \o
                 ToolClasses(SelectSeq(gwEvent'.attempted,
                                       LAMBDA t : t.name \notin gwEvent'.failing))
    ]_vars

\* C22 witness: of two accepted descriptors the registration of the first
\* failed and the second was registered, on top of a tool tracked before.
C22_Witness ==
    /\ gwEnabled
    /\ gwEvent.op = "register_mcp_tools"
    /\ Len(gwEvent.attempted) = 2
    /\ gwEvent.attempted[1].name \in gwEvent.failing
    /\ gwEvent.registered = <<ToolClass(gwEvent.attempted[2])>>
    /\ Len(registered_tools) > 1

C24_RefreshRegistersFreshDiscovery ==
    [][ (gwEnabled /\ gwEvent'.op = "refresh_tools") =>
           LET p == gwEvent'.project
               fresh == gwEvent'.discovered
               accepted == FilterToolsByGating(gwConfig, fresh, p)
           IN  /\ gwEvent'.queried
               /\ fresh \in ManagerAnswers
               /\ gwEvent'.removed = registered_tools
               /\ DOMAIN tool_cache' = {p}
               /\ ToolClasses(tool_cache'[p]) = ToolClasses(fresh)
               /\ registered_tools' =
                     ToolClasses(SelectSeq(accepted, LAMBDA t : t.name \notin gwEvent'.failing))
               /\ gwEvent'.failing = {} => registered_tools' = ToolClasses(accepted)
    ]_vars

\* C24 witness: a tool registered before is gone from the fresh answer and
\* from the registered set, which holds the tool still served.
C24_Witness ==
    /\ gwEnabled
    /\ gwEvent.op = "refresh_tools"
    /\ \E i \in DOMAIN gwEvent.removed :
          /\ gwEvent.removed[i].name = "x"
          /\ \A j \in DOMAIN gwEvent.discovered : gwEvent.discovered[j].name # "x"
    /\ registered_tools = <<[name |-> "y", server_name |-> "B"]>>

C25_RaisesWitness ==
    /\ wrapCall.op = "call_tool"
    /\ wrapCall.called
    /\ wrapCall.outcome = "raises"
    /\ wrapCall.output = "exception"

\* a value of the JSON type a schema declares
JsonTypeMatches(value, type) ==
    CASE type = "string" -> value.py = "str"
      [] type = "integer" -> value.py = "int"
      [] type = "number" -> value.py \in {"int", "float"}
      [] type = "boolean" -> value.py = "bool"
      [] type = "array" -> value.py = "list"
      [] type = "object" -> value.py = "dict"

\* the arguments of a call that the schema rejects: required properties left
\* out, and values not of the declared type
MissingArguments(schema, arguments) ==
    {schema.required[i] : i \in DOMAIN schema.required} \ DOMAIN arguments

MismatchedArguments(schema, arguments) ==
    { n \in DOMAIN arguments \cap DOMAIN schema.properties :
         /\ schema.properties[n].type \in SchemaTypes
         /\ ~JsonTypeMatches(arguments[n], schema.properties[n].type) }

\* C26: a call that omits a required property, or supplies a value whose type
\* is not the declared schema type, returns a failure result naming such an
\* argument, and mcp_client.call_tool is never called.
C26_InvalidArgumentsRejected ==
    LET offending == MissingArguments(wrapSchema, wrapCall.arguments)
                        \cup MismatchedArguments(wrapSchema, wrapCall.arguments)
    IN  (wrapCall.op = "call_tool" /\ wrapConnected /\ offending # {}) =>
           /\ ~wrapCall.called
           /\ ~wrapCall.success
           /\ wrapCall.output \in {"missing_required", "invalid_type"}
           /\ wrapCall.named \in offending

\* C27: for a valid call the arguments sent to mcp_client.call_tool are the
\* caller's arguments plus the default of every schema property the caller
\* omitted that declares one; a supplied value is never replaced.
C27_DefaultsFillOmittedOnly ==
    wrapCall.called =>
       /\ \A n \in DOMAIN wrapCall.arguments :
             n \in DOMAIN wrapCall.sent /\ wrapCall.sent[n] = wrapCall.arguments[n]
       /\ \A n \in DOMAIN wrapSchema.properties \ DOMAIN wrapCall.arguments :
             IF wrapSchema.properties[n].has_default
             THEN n \in DOMAIN wrapCall.sent
                  /\ wrapCall.sent[n] = wrapSchema.properties[n].default
             ELSE n \notin DOMAIN wrapCall.sent
       /\ DOMAIN wrapCall.sent \subseteq
             DOMAIN wrapCall.arguments \cup DOMAIN wrapSchema.properties

\* q is omitted and gets its default 2, while p, which declares the default
\* 2 as well, keeps the 1 the caller gave
C27_Witness ==
    /\ wrapCall.called
    /\ wrapSchema.properties["p"].has_default
    /\ wrapCall.arguments = [n \in {"p"} |-> Py("int", "1")]
    /\ wrapCall.sent = [n \in {"p", "q"} |-> IF n = "p" THEN Py("int", "1") ELSE Py("int", "2")]

\* C28: the pending-request map holds a request id at most once: it is a
\* dict whose keys are ids of calls still in send_request, an id enters it
\* only when it is allocated and ids are never allocated again.  A pending
\* request is completed at most once: a future resolved by a response or
\* cancelled keeps its state and its response until its call returns.  The
\* entry is removed once: it never comes back, and it is gone when the call
\* has returned, by response, timeout or cancellation.
C28_PendingCompletedAndRemovedOnce ==
    [][\A id \in Ids :
          /\ id \in pending_requests => req[id].st = "inflight"
          /\ (id \in pending_requests' /\ id \notin pending_requests) =>
                /\ req[id].st = "free"
                /\ req'[id].st = "inflight"
                /\ req'[id].fut = "pending"
          /\ req'[id].st = "free" => req[id].st = "free"
          /\ (req[id].st = "inflight" /\ req[id].fut # "pending"
                 /\ req'[id].st = "inflight") =>
                /\ req'[id].fut = req[id].fut
                /\ req'[id].got = req[id].got
          /\ req'[id].st = "returned" => id \notin pending_requests'
      ]_vars

\* a second response for a request whose future already has its response
\* and whose call has not yet returned: it is dropped
C28_Witness ==
    /\ event.op = "read"
    /\ event.out = "dropped"
    /\ event.id \in pending_requests
    /\ req[event.id].st = "inflight"
    /\ req[event.id].fut \in {"result", "error"}

\* C29: retry_failed_connections never calls connect() on a client instance
\* that existed before the call: every client it connects is one it created.
C29_RetryConnectsFreshClients ==
    mgrEvent.op = "retry_failed_connections" =>
       mgrEvent.attempted \cap mgrEvent.owned = {}

\* the positions in connected_clients of the clients that gave the name t to
\* the last rebuild of the table
Contributors(t) ==
    {i \in DOMAIN connected_clients :
        /\ connected_clients[i] \notin mgrEvent.failed
        /\ t \in ContributedNames(connected_clients[i])}

\* the greatest element of a non-empty set of numbers
Last(S) == CHOOSE i \in S : \A j \in S : j <= i

\* the table has just been rebuilt
TableRebuilt ==
    /\ mgrEvent.op \in {"connect_to_servers", "retry_failed_connections"}
    /\ mgrEvent.attempted # {}
    /\ connected_clients # <<>>

\* C30: the routing table binds a tool name to at most one client; after a
\* rebuild a name exposed by several connected servers is bound to the one
\* processed last, a name exposed by none is not bound; call_tool calls the
\* client the table binds, and no other.
C30_LastWriterWins ==
    /\ TableRebuilt =>
          \A t \in ToolNames :
             IF Contributors(t) = {}
             THEN t \notin DOMAIN tool_to_client_map
             ELSE /\ t \in DOMAIN tool_to_client_map
                  /\ tool_to_client_map[t] = connected_clients[Last(Contributors(t))]
    /\ \A t \in DOMAIN tool_to_client_map :
          Cardinality({c \in ClientIds(clients) : tool_to_client_map[t] = c}) = 1
    /\ (mgrEvent.op = "call_tool" /\ mgrEvent.tool \in DOMAIN tool_to_client_map) =>
          mgrEvent.called = {tool_to_client_map[mgrEvent.tool]}

\* two connected servers expose x; the table binds x to the later one
C30_Witness ==
    /\ TableRebuilt
    /\ Cardinality(Contributors("x")) >= 2
    /\ tool_to_client_map["x"] = connected_clients[Last(Contributors("x"))]

\* a call of x goes to the later of the two clients that expose it
C30_RoutedWitness ==
    /\ mgrEvent.op = "call_tool"
    /\ mgrEvent.tool = "x"
    /\ \E i, j \in DOMAIN connected_clients :
          /\ i < j
          /\ "x" \in ContributedNames(connected_clients[i])
          /\ "x" \in ContributedNames(connected_clients[j])
          /\ mgrEvent.called = {connected_clients[j]}

\* C31: every tracked registered tool class is in the most recent result of
\* the gating filter for the project whose register_mcp_tools registered it,
\* also after repeated registrations for the same or for different projects
\* with no unregister in between.
C31_RegisteredWithinFiltered ==
    /\ Len(gwHistory.by) = Len(registered_tools)
    /\ \A i \in DOMAIN registered_tools :
          /\ gwHistory.by[i] \in DOMAIN gwHistory.filtered
          /\ registered_tools[i] \in Range(gwHistory.filtered[gwHistory.by[i]])

\* tools registered for P and for Q are tracked together, and the last
\* register_mcp_tools was a repeated one, served from the cache
C31_Witness ==
    /\ gwEvent.op = "register_mcp_tools"
    /\ ~gwEvent.queried
    /\ Range(gwHistory.by) = {"P", "Q"}
    /\ gwHistory.filtered["P"] # gwHistory.filtered["Q"]

\* the last gateway operation ran _discover_available_tools
DiscoveryRan ==
    \/ gwEvent.op = "get_mcp_tool_info"
    \/ gwEnabled /\ gwEvent.op \in {"register_mcp_tools", "refresh_tools"}

\* C32: while the cache is not invalidated the server manager is asked at
\* most once per project; a discovery for a project returns the list the
\* manager answered for that project, from the cache when it was asked
\* before, never the list of another project.
C32_DiscoveryCachedPerProject ==
    /\ \A p \in ProjectIds : gwHistory.queries[p] <= 1
    /\ DiscoveryRan =>
          /\ gwEvent.project \in DOMAIN gwHistory.answered
          /\ gwHistory.queries[gwEvent.project] = 1
          /\ ClassesOf(gwEvent.discovered) = gwHistory.answered[gwEvent.project]

\* a discovery for P is served from the cache while the cache also holds a
\* different list for Q
C32_Witness ==
    /\ DiscoveryRan
    /\ ~gwEvent.queried
    /\ gwEvent.project = "P"
    /\ gwEvent.discovered # <<>>
    /\ "Q" \in DOMAIN gwHistory.answered
    /\ gwHistory.answered["Q"] # gwHistory.answered["P"]

\* C39: register_mcp_tools leaves the descriptors of the discovery cache as
\* they were: each still carries its client, so that a registration served
\* from the cache registers what the first one did.
C39_CachedDescriptorsKeepClient ==
    /\ \A p \in DOMAIN tool_cache :
          \A i \in DOMAIN tool_cache[p] : tool_cache[p][i].has_client
    /\ (gwEnabled /\ gwEvent.op = "register_mcp_tools" /\ gwEvent.failing = {}) =>
          ClassesOf(gwEvent.registered) = ClassesOf(gwEvent.accepted)

\* the effective blocked_tools list of a project
EffectiveBlocked(project_id) ==
    DictGet(GetEffectiveConfig(gwConfig, project_id), "blocked_tools", ListValue({})).items

\* C38: a tool named in the effective blocked-tools list of a project is
\* never registered for that project, whatever the configured mode is.
C38_BlockedNeverRegistered ==
    \A i \in DOMAIN registered_tools :
       i \in DOMAIN gwHistory.by =>
          registered_tools[i].name \notin EffectiveBlocked(gwHistory.by[i])

\* C33: a line that is not valid JSON completes no pending request and does
\* not end the read loop: the loop goes on reading while the client is
\* connected, and a valid response read next still completes the pending
\* request whose id it carries.
C33_MalformedLineSkipped ==
    [][(event'.op = "read" /\ event'.out = "malformed") =>
          /\ UNCHANGED <<req, pending_requests, connected>>
          /\ (connected /\ process # NoProcess) =>
                /\ response_task'.st = "reading"
                /\ response_task'.proc = process
          /\ \A j \in pending_requests :
                req[j].fut = "pending" =>
                   HandleResponse(pending_requests', req',
                                  [kind |-> "result", id |-> j])[j].fut = "result"
      ]_vars

\* a malformed line was read while a request waits, and the loop reads on
C33_Witness ==
    /\ event.op = "read"
    /\ event.out = "malformed"
    /\ response_task.st = "reading"
    /\ \E j \in pending_requests : req[j].owner = "user" /\ req[j].fut = "pending"

C35_RpcErrorIsLocal ==
    [][/\ (event'.op = "read" /\ event'.id # NoId /\ req'[event'.id].fut = "error"
              /\ req[event'.id].fut = "pending") =>
             /\ \A j \in Ids \ {event'.id} : req'[j] = req[j]
             /\ req'[event'.id].got = event'.id
             /\ UNCHANGED <<pending_requests, connected, process, procState>>
       /\ (event'.op = "return" /\ event'.out = "rpc_error") =>
             /\ event'.got = event'.id
             /\ \A j \in Ids \ {event'.id} : req'[j] = req[j]
             /\ pending_requests' = pending_requests \ {event'.id}
             /\ UNCHANGED <<connected, process, procState, response_task, request_id>>
      ]_vars

\* a caller got its RPC error on a connected client while another request,
\* sent after it, still waits
C35_Witness ==
    /\ event.op = "return"
    /\ event.out = "rpc_error"
    /\ connected
    /\ response_task.st = "reading"
    /\ \E j \in pending_requests :
          j > event.id /\ req[j].owner = "user" /\ req[j].fut = "pending"

\* C36: a response whose id has no entry in the pending-request map (an id
\* never sent, or one whose request has timed out or was cancelled) completes
\* no request and leaves the map as it was; request ids are never allocated
\* again, so it cannot reach a request sent later.
C36_UnmatchedResponseDropped ==
    [][/\ (event'.op = "read" /\ event'.id # NoId /\ event'.id \notin pending_requests) =>
             /\ UNCHANGED <<req, pending_requests>>
             /\ event'.out = "dropped"
       /\ \A id \in Ids :
             (req[id].st = "free" /\ req'[id].st # "free") =>
                /\ id = request_id + 1
                /\ \A j \in Ids : req[j].st # "free" => j < id
      ]_vars

\* the response of a request that has already returned is dropped while a
\* request sent later waits
C36_Witness ==
    /\ event.op = "read"
    /\ event.out = "dropped"
    /\ req[event.id].st = "returned"
    /\ \E j \in pending_requests :
          j > event.id /\ req[j].owner = "user" /\ req[j].fut = "pending"

\* C37: while connect() waits for the initialize response, a read loop that
\* reads is reading from the server process connect() started, also when
\* connect() is attempted again after a failed handshake.
C37_RetryReadsNewProcess ==
    (lc = "handshake" /\ response_task.st = "reading") => response_task.proc = process

\* C40: the manager owns at most one client per server configuration name;
\* connected_clients holds owned clients only, none of them twice.
C40_OneClientPerServer ==
    /\ \A i, j \in ClientIds(clients) : clients[i].name = clients[j].name => i = j
    /\ Range(connected_clients) \subseteq ClientIds(clients)
    /\ \A i, j \in DOMAIN connected_clients :
          connected_clients[i] = connected_clients[j] => i = j

====
